---- MODULE Spec2Model ----
(***************************************************************************)
(* ShiftPilot scheduling engine.                                           *)
(*                                                                         *)
(*   backend/scheduler/engine.py      slot building, eligibility, the      *)
(*                                    constraint ladder, bleach rotation,  *)
(*                                    scoring, generate_schedule           *)
(*   backend/scheduler/tournament.py  run_tournament                       *)
(*   _old/.../engine/local_search.py  improve_by_swaps                     *)
(*                                                                         *)
(* Conventions of the model                                                *)
(*   - Optional[int] is a set: {} is None, {n} is the integer n.           *)
(*   - A date is the number of days since 2025-01-01 (a Wednesday).        *)
(*   - Penalties are integers in units of 0.00025: 1.0 is 4000 units,      *)
(*     FAIRNESS_WEIGHT 0.5 is 2000 units, JITTER_SCALE 1e-3 is 4 units.    *)
(*   - random.Random is a small linear congruential generator: a           *)
(*     deterministic function of its seed, as the Mersenne Twister is.     *)
(*   - An Assignment refers to its slot by the slot's position in the list *)
(*     _build_slots returned (Python holds a reference to the list's       *)
(*     object); slots[a.slot] is the ScheduleSlot.                         *)
(*   - A definition named ...Mut is a faulty variant of the definition     *)
(*     that follows it; no specification uses it.                          *)
(***************************************************************************)
EXTENDS Integers, Sequences, FiniteSets, TLC

VARIABLES
    pc,      \* position of the caller: which call is in progress
    inp,     \* the arguments of the call: staff, requirements, cfg, pto_entries
    slots_ref, \* generate_schedule: which list _build_slots built (SlotLists)
    gen,     \* generate_schedule: its locals while the slot loop runs
    result,  \* generate_schedule: the ScheduleResult returned (or an error)
    tour,    \* run_tournament: its locals, and what it returned
    ls       \* improve_by_swaps: its locals, and what it returned

vars == <<pc, inp, slots_ref, gen, result, tour, ls>>

None == {}
Some(x) == {x}
TheOne(s) == CHOOSE x \in s : TRUE

---------------------------------------------------------------------------
(* model.py *)

DAYS == <<"Mon", "Tue", "Wed", "Thu", "Fri", "Sat">>
MWF == {"Mon", "Wed", "Fri"}
TTS == {"Tue", "Thu", "Sat"}
DaySet == {DAYS[i] : i \in DOMAIN DAYS}

OPEN_LABEL == "OPEN"
FAIRNESS_WEIGHT == 2000
JITTER_SCALE == 4
WEEK_CAP == 4

\* StaffPreferences.weight_for
weight_for(preferences, duty, day_name) ==
    IF day_name \in MWF
    THEN CASE duty = "open" -> preferences.open_mwf
           [] duty = "mid" -> preferences.mid_mwf
           [] duty = "close" -> preferences.close_mwf
           [] OTHER -> 4000
    ELSE CASE duty = "open" -> preferences.open_tts
           [] duty = "mid" -> preferences.mid_tts
           [] duty = "close" -> preferences.close_tts
           [] OTHER -> 4000

---------------------------------------------------------------------------
(* datetime.date, for the dates of 2025 and early 2026 *)

MonthStarts == <<0, 31, 59, 90, 120, 151, 181, 212, 243, 273, 304, 334>>

\* date.month
MonthOf(d) ==
    LET doy == d % 365
    IN  CHOOSE m \in 1..12 :
            /\ MonthStarts[m] <= doy
            /\ (m = 12 \/ doy < MonthStarts[m + 1])

\* date.weekday(): 0 is Monday
WeekdayOf(d) == (d + 2) % 7

---------------------------------------------------------------------------
(* engine.py: requirement normalisation and slot building *)

Max2(a, b) == IF a >= b THEN a ELSE b

\* math.ceil(a / b) for a >= 0, b > 0
CeilDiv(a, b) == (a + b - 1) \div b

LastIndexOf(requirements, d) ==
    CHOOSE i \in DOMAIN requirements :
        /\ requirements[i].day_name = d
        /\ \A j \in DOMAIN requirements : requirements[j].day_name = d => j <= i

\* _ensure_requirements: the dict built by the loop (a later entry replaces an earlier one)
ReqMap(requirements) ==
    [d \in {requirements[i].day_name : i \in DOMAIN requirements} |->
        requirements[LastIndexOf(requirements, d)]]

\* variant: only the number of entries is looked at
MissingDaysMut(requirements) ==
    IF Len(requirements) < Len(DAYS) THEN DaySet ELSE {}

\* _ensure_requirements: the days it reports missing
MissingDays(requirements) ==
    {d \in DaySet : d \notin DOMAIN ReqMap(requirements)}

\* _build_slots, line 58: requirements[day_name] finds an entry for every day
HasEveryDay(requirements) ==
    \A d \in DaySet : \E i \in DOMAIN requirements : requirements[i].day_name = d

\* _build_slots, lines 60-71: no admin coverage on Saturdays
ZeroSatAdmin(req, day_name) ==
    IF day_name = "Sat" /\ req.admin_count # 0
    THEN [req EXCEPT !.admin_count = 0]
    ELSE req

\* variant: the shortfall goes to the openers
ScaleTechsMut(req, cfg) ==
    LET tech_total == req.tech_openers + req.tech_mids + req.tech_closers
        need_tech == IF cfg.patients_per_tech # 0
                     THEN CeilDiv(req.patient_count, cfg.patients_per_tech)
                     ELSE 0
    IN  IF need_tech > tech_total
        THEN [req EXCEPT !.tech_openers = req.tech_openers + (need_tech - tech_total)]
        ELSE req

\* _build_slots, lines 72-87: tech counts meet the patient ratio
ScaleTechs(req, cfg) ==
    LET tech_total == req.tech_openers + req.tech_mids + req.tech_closers
        need_tech == IF cfg.patients_per_tech # 0
                     THEN CeilDiv(req.patient_count, cfg.patients_per_tech)
                     ELSE 0
    IN  IF need_tech > tech_total
        THEN [req EXCEPT !.tech_mids = req.tech_mids + (need_tech - tech_total)]
        ELSE req

\* variant: the technicians-per-nurse ratio is not looked at
ScaleRnsMut(req, cfg) ==
    LET rn_min_from_tech == 0
        rn_min_from_patients == IF cfg.patients_per_rn # 0
                                THEN CeilDiv(req.patient_count, cfg.patients_per_rn)
                                ELSE 0
        rn_needed == Max2(req.rn_count, Max2(rn_min_from_patients, rn_min_from_tech))
    IN  IF rn_needed # req.rn_count
        THEN [req EXCEPT !.rn_count = rn_needed]
        ELSE req

\* _build_slots, lines 89-102: rn count meets both ratios
ScaleRns(req, cfg) ==
    LET tech_total == req.tech_openers + req.tech_mids + req.tech_closers
        rn_min_from_tech == IF cfg.techs_per_rn # 0
                            THEN CeilDiv(tech_total, cfg.techs_per_rn)
                            ELSE 0
        rn_min_from_patients == IF cfg.patients_per_rn # 0
                                THEN CeilDiv(req.patient_count, cfg.patients_per_rn)
                                ELSE 0
        rn_needed == Max2(req.rn_count, Max2(rn_min_from_patients, rn_min_from_tech))
    IN  IF rn_needed # req.rn_count
        THEN [req EXCEPT !.rn_count = rn_needed]
        ELSE req

AdjustReq(req, day_name, cfg) ==
    ScaleRns(ScaleTechs(ZeroSatAdmin(req, day_name), cfg), cfg)

\* str.lower() on the frequency names the configuration uses
Lower(s) ==
    CASE s = "Weekly" -> "weekly"
      [] s = "Quarterly" -> "quarterly"
      [] OTHER -> s

\* variant: the quarterly test reads the month of the start date
BleachFlagMut(req, cfg, week, schedule_date, day_name) ==
    IF req.tech_closers > 0
    THEN LET freq == Lower(IF cfg.bleach_frequency = "" THEN "weekly"
                           ELSE cfg.bleach_frequency)
         IN  CASE freq = "weekly" -> day_name = cfg.bleach_day
               [] freq = "quarterly" ->
                     /\ week = 1
                     /\ MonthOf(cfg.start_date) \in {2, 5, 8, 11}
                     /\ day_name = cfg.bleach_day
               [] OTHER -> day_name = cfg.bleach_day
    ELSE FALSE

\* _build_slots, lines 122-132: is the day's first closer the bleach slot
BleachFlag(req, cfg, week, schedule_date, day_name) ==
    IF req.tech_closers > 0
    THEN LET freq == Lower(IF cfg.bleach_frequency = "" THEN "weekly"
                           ELSE cfg.bleach_frequency)
         IN  CASE freq = "weekly" -> day_name = cfg.bleach_day
               [] freq = "quarterly" ->
                     /\ week = 1
                     /\ MonthOf(schedule_date) \in {2, 5, 8, 11}
                     /\ day_name = cfg.bleach_day
               [] OTHER -> day_name = cfg.bleach_day
    ELSE FALSE

\* variant: every slot of the group gets the flag
add_slotMut(day_index, schedule_date, day_name, role, duty, count, bleach) ==
    [idx \in 1..count |->
        [day_index |-> day_index, date |-> schedule_date, day_name |-> day_name,
         role |-> role, duty |-> duty, slot_index |-> idx,
         is_bleach |-> bleach]]

\* _build_slots.add_slot
add_slot(day_index, schedule_date, day_name, role, duty, count, bleach) ==
    [idx \in 1..count |->
        [day_index |-> day_index, date |-> schedule_date, day_name |-> day_name,
         role |-> role, duty |-> duty, slot_index |-> idx,
         is_bleach |-> (bleach /\ idx = 1)]]

\* _build_slots: the slots of one day, from the day's adjusted requirement
DaySlots(req, cfg, day_index) ==
    LET week == day_index \div Len(DAYS)
        day_pos == day_index % Len(DAYS)
        day_name == DAYS[day_pos + 1]
        schedule_date == cfg.start_date + week * 7 + day_pos
        bleach == BleachFlag(req, cfg, week, schedule_date, day_name)
    IN  add_slot(day_index, schedule_date, day_name, "Tech", "open", req.tech_openers, FALSE)
        \o add_slot(day_index, schedule_date, day_name, "Tech", "mid", req.tech_mids, FALSE)
        \o add_slot(day_index, schedule_date, day_name, "Tech", "close", req.tech_closers, bleach)
        \o add_slot(day_index, schedule_date, day_name, "RN", "coverage", req.rn_count, FALSE)
        \o add_slot(day_index, schedule_date, day_name, "Admin", "coverage", req.admin_count, FALSE)

\* _build_slots: the two loops, with the requirement map written back each day
RECURSIVE BuildFrom(_, _, _, _)
BuildFrom(requirements, cfg, day_index, acc) ==
    IF day_index >= cfg.weeks * Len(DAYS)
    THEN acc
    ELSE LET day_name == DAYS[(day_index % Len(DAYS)) + 1]
             req == AdjustReq(requirements[day_name], day_name, cfg)
         IN  BuildFrom([requirements EXCEPT ![day_name] = req], cfg, day_index + 1,
                       acc \o DaySlots(req, cfg, day_index))

_build_slots(requirements, cfg) == BuildFrom(requirements, cfg, 0, <<>>)

---------------------------------------------------------------------------
(* engine.py: random.Random *)

\* one step of the generator's internal state
RngNext(s) == (s * 17 + 11) % 61

\* random.Random(seed)
RngSeed(seed) == (seed * 7 + 3) % 61

\* variant: the seed is ignored
NewRngMut(rng_seed, entropy) == entropy

\* lines 255-256: rng = random.Random(rng_seed); without a seed the generator
\* starts from the system's entropy
NewRng(rng_seed, entropy) ==
    IF rng_seed # None THEN RngSeed(TheOne(rng_seed)) ELSE entropy

\* random.shuffle(x): for i in reversed(range(1, len(x))): j = randbelow(i + 1); swap
RECURSIVE ShuffleFrom(_, _, _)
ShuffleFrom(x, i, rng) ==
    IF i < 2
    THEN [x |-> x, rng |-> rng]
    ELSE LET r == RngNext(rng)
             j == (r % i) + 1
         IN  ShuffleFrom([x EXCEPT ![i] = x[j], ![j] = x[i]], i - 1, r)

Shuffle(x, rng) == ShuffleFrom(x, Len(x), rng)

---------------------------------------------------------------------------
(* engine.py: eligibility, constraint toggles, scoring *)

\* _week_and_day_index(idx)[0]
WeekIndex(idx) == idx \div Len(DAYS)

\* _StaffState(assignments=[], worked_day_indices=[])
NewStaffState ==
    [assignments |-> <<>>, worked_day_indices |-> <<>>,
     last_bleach_day |-> None, last_saturday_week |-> None,
     week_assignments |-> <<>>]

SeqSet(s) == {s[i] : i \in DOMAIN s}

\* week_assignments.get(week_idx, set())
WeekWorked(member_state, week_idx) ==
    IF week_idx \in DOMAIN member_state.week_assignments
    THEN member_state.week_assignments[week_idx]
    ELSE {}

\* variant: the lookup finds no leave
PtoDatesMut(pto_entries, id) == {}

\* _pto_lookup(pto_entries).get(id, ())
PtoDates(pto_entries, id) == {e.date : e \in {x \in pto_entries : x.staff_id = id}}

\* variant: a weekday missing from the availability map counts as available
_is_availableDefaultMut(member, slot, pto_entries) ==
    /\ (slot.day_name \in DOMAIN member.availability =>
            member.availability[slot.day_name])
    /\ slot.date \notin PtoDates(pto_entries, member.id)
    /\ member.role = slot.role
    /\ (slot.role = "Tech" =>
            /\ (slot.duty = "open" => member.can_open)
            /\ (slot.duty = "close" => member.can_close)
            /\ (slot.is_bleach => member.can_bleach))

\* variant: can_bleach is not asked for
_is_availableMut(member, slot, pto_entries) ==
    /\ slot.day_name \in DOMAIN member.availability
    /\ member.availability[slot.day_name]
    /\ slot.date \notin PtoDates(pto_entries, member.id)
    /\ member.role = slot.role
    /\ (slot.role = "Tech" =>
            /\ (slot.duty = "open" => member.can_open)
            /\ (slot.duty = "close" => member.can_close))

\* _is_available
_is_available(member, slot, pto_entries) ==
    /\ slot.day_name \in DOMAIN member.availability
    /\ member.availability[slot.day_name]
    /\ slot.date \notin PtoDates(pto_entries, member.id)
    /\ member.role = slot.role
    /\ (slot.role = "Tech" =>
            /\ (slot.duty = "open" => member.can_open)
            /\ (slot.duty = "close" => member.can_close)
            /\ (slot.is_bleach => member.can_bleach))

NoIgnore ==
    [post_bleach |-> FALSE, week_cap |-> FALSE, three_day |-> FALSE, alt_sat |-> FALSE]

\* _violates_toggles, lines 182-186
ThreeDayBlocked(member_state, slot) ==
    LET recent == SeqSet(member_state.worked_day_indices)
    IN  /\ Len(member_state.worked_day_indices) >= 2
        /\ slot.day_index - 1 \in recent
        /\ slot.day_index - 2 \in recent

\* _violates_toggles, lines 188-190
PostBleachBlocked(member_state, slot) ==
    /\ member_state.last_bleach_day # None
    /\ slot.day_index = TheOne(member_state.last_bleach_day) + 1

\* _violates_toggles, lines 192-194
AltSatBlocked(member_state, slot) ==
    /\ slot.day_name = "Sat"
    /\ member_state.last_saturday_week = Some(WeekIndex(slot.day_index) - 1)

\* variant: a fifth day is let through, the sixth is not
WeekCapBlockedMut(member_state, slot) ==
    LET worked == WeekWorked(member_state, WeekIndex(slot.day_index))
    IN  slot.day_index \notin worked /\ Cardinality(worked) > WEEK_CAP

\* _violates_toggles, lines 196-198 and 200-202
WeekCapBlocked(member_state, slot) ==
    LET worked == WeekWorked(member_state, WeekIndex(slot.day_index))
    IN  slot.day_index \notin worked /\ Cardinality(worked) >= WEEK_CAP

\* variant: the consecutive-day cap does not ask for its toggle
_violates_togglesMut(member_state, slot, cfg, ignore) ==
    \/ ~ignore.three_day
          /\ ThreeDayBlocked(member_state, slot)
    \/ cfg.toggles.enforce_post_bleach_rest /\ ~ignore.post_bleach
          /\ PostBleachBlocked(member_state, slot)
    \/ cfg.toggles.enforce_alt_saturdays /\ ~ignore.alt_sat
          /\ AltSatBlocked(member_state, slot)
    \/ cfg.toggles.limit_tech_four_days /\ ~ignore.week_cap /\ slot.role = "Tech"
          /\ WeekCapBlocked(member_state, slot)
    \/ cfg.toggles.limit_rn_four_days /\ ~ignore.week_cap /\ slot.role = "RN"
          /\ WeekCapBlocked(member_state, slot)

\* _violates_toggles
_violates_toggles(member_state, slot, cfg, ignore) ==
    \/ cfg.toggles.enforce_three_day_cap /\ ~ignore.three_day
          /\ ThreeDayBlocked(member_state, slot)
    \/ cfg.toggles.enforce_post_bleach_rest /\ ~ignore.post_bleach
          /\ PostBleachBlocked(member_state, slot)
    \/ cfg.toggles.enforce_alt_saturdays /\ ~ignore.alt_sat
          /\ AltSatBlocked(member_state, slot)
    \/ cfg.toggles.limit_tech_four_days /\ ~ignore.week_cap /\ slot.role = "Tech"
          /\ WeekCapBlocked(member_state, slot)
    \/ cfg.toggles.limit_rn_four_days /\ ~ignore.week_cap /\ slot.role = "RN"
          /\ WeekCapBlocked(member_state, slot)

\* _preference_penalty
_preference_penalty(member, slot) ==
    IF slot.role # "Tech"
    THEN 4000
    ELSE weight_for(member.preferences, slot.duty, slot.day_name)

\* _StaffState.total_assignments
total_assignments(member_state) == Len(member_state.assignments)

\* _score_candidate
_score_candidate(member_state, base_penalty, fairness_weight) ==
    base_penalty + fairness_weight * total_assignments(member_state)

\* the order of str on the ids the model uses
IdOrder == <<"a1", "r1", "t1", "t2", "t3", "zz">>
IdRank(id) == CHOOSE i \in DOMAIN IdOrder : IdOrder[i] = id

---------------------------------------------------------------------------
(* engine.py: generate_schedule *)

BLEACH_PENALTY == 20000

\* staff_by_role.get(role, []): the members of a role, in staff order
StaffByRole(staff, role) ==
    LET IsRole(member) == member.role = role
    IN  SelectSeq(staff, IsRole)

\* staff_map.get(id): None for an unknown id, the last member of that id otherwise
StaffMapGet(staff, id) ==
    LET at == {i \in DOMAIN staff : staff[i].id = id}
    IN  IF at = {} THEN None
        ELSE Some(staff[CHOOSE i \in at : \A j \in at : j <= i])

\* variant: the day already worked is not noticed
WorksThatDayMut(member_state, slot) == FALSE

\* is the person already working the slot's day (lines 288 and 353)
WorksThatDay(member_state, slot) ==
    slot.day_index \in SeqSet(member_state.worked_day_indices)

\* generate_schedule.gather_candidates: one person's three tests
PassesGather(member, states, slot, cfg, pto_entries, ignore) ==
    /\ ~WorksThatDay(states[member.id], slot)
    /\ _is_available(member, slot, pto_entries)
    /\ ~_violates_toggles(states[member.id], slot, cfg, ignore)

\* generate_schedule.gather_candidates
gather_candidates(role_candidates, states, slot, cfg, pto_entries, ignore) ==
    LET Keep(member) == PassesGather(member, states, slot, cfg, pto_entries, ignore)
    IN  SelectSeq(role_candidates, Keep)

\* variant: the ladder stops before post-bleach rest is given up
OrdinaryTiersMut ==
    << [ignore |-> [alt_sat |-> TRUE, three_day |-> FALSE, week_cap |-> FALSE,
                    post_bleach |-> FALSE], note |-> "Relax: alt Saturdays"],
       [ignore |-> [alt_sat |-> TRUE, three_day |-> TRUE, week_cap |-> FALSE,
                    post_bleach |-> FALSE], note |-> "Relax: 3-day cap"],
       [ignore |-> [alt_sat |-> TRUE, three_day |-> TRUE, week_cap |-> TRUE,
                    post_bleach |-> FALSE], note |-> "Relax: 4-day/week cap"] >>

\* lines 311-316: the tiers tried after the full-constraint pass found nobody
OrdinaryTiers ==
    << [ignore |-> [alt_sat |-> TRUE, three_day |-> FALSE, week_cap |-> FALSE,
                    post_bleach |-> FALSE], note |-> "Relax: alt Saturdays"],
       [ignore |-> [alt_sat |-> TRUE, three_day |-> TRUE, week_cap |-> FALSE,
                    post_bleach |-> FALSE], note |-> "Relax: 3-day cap"],
       [ignore |-> [alt_sat |-> TRUE, three_day |-> TRUE, week_cap |-> TRUE,
                    post_bleach |-> FALSE], note |-> "Relax: 4-day/week cap"],
       [ignore |-> [alt_sat |-> TRUE, three_day |-> TRUE, week_cap |-> TRUE,
                    post_bleach |-> TRUE], note |-> "Relax: post-bleach rest"] >>

\* variant: the loosest tier gives up post-bleach rest as well
BleachTiersMut ==
    << [ignore |-> [post_bleach |-> FALSE, week_cap |-> FALSE, three_day |-> FALSE,
                    alt_sat |-> FALSE], note |-> None],
       [ignore |-> [post_bleach |-> FALSE, week_cap |-> FALSE, three_day |-> FALSE,
                    alt_sat |-> TRUE], note |-> Some("Relax: alt Saturdays")],
       [ignore |-> [post_bleach |-> FALSE, week_cap |-> FALSE, three_day |-> TRUE,
                    alt_sat |-> TRUE], note |-> Some("Relax: 3-day cap")],
       [ignore |-> [post_bleach |-> TRUE, week_cap |-> TRUE, three_day |-> TRUE,
                    alt_sat |-> TRUE], note |-> Some("Relax: 4-day/week cap")] >>

\* lines 337-342: the tiers of a bleach slot; post-bleach rest is never ignored
BleachTiers ==
    << [ignore |-> [post_bleach |-> FALSE, week_cap |-> FALSE, three_day |-> FALSE,
                    alt_sat |-> FALSE], note |-> None],
       [ignore |-> [post_bleach |-> FALSE, week_cap |-> FALSE, three_day |-> FALSE,
                    alt_sat |-> TRUE], note |-> Some("Relax: alt Saturdays")],
       [ignore |-> [post_bleach |-> FALSE, week_cap |-> FALSE, three_day |-> TRUE,
                    alt_sat |-> TRUE], note |-> Some("Relax: 3-day cap")],
       [ignore |-> [post_bleach |-> FALSE, week_cap |-> TRUE, three_day |-> TRUE,
                    alt_sat |-> TRUE], note |-> Some("Relax: 4-day/week cap")] >>

\* variant: the loop over the tiers does not stop at the first tier that
\* finds somebody
LadderMut(role_candidates, states, slot, cfg, pto_entries) ==
    LET full == gather_candidates(role_candidates, states, slot, cfg, pto_entries, NoIgnore)
        loosest == gather_candidates(role_candidates, states, slot, cfg, pto_entries,
                                     OrdinaryTiers[Len(OrdinaryTiers)].ignore)
    IN  IF full # <<>>
        THEN [candidates |-> full, relaxed_note |-> None, tier |-> 0]
        ELSE IF loosest = <<>>
             THEN [candidates |-> <<>>, relaxed_note |-> None, tier |-> 0]
             ELSE [candidates |-> loosest,
                   relaxed_note |-> Some(OrdinaryTiers[Len(OrdinaryTiers)].note),
                   tier |-> Len(OrdinaryTiers)]

\* lines 307-325: the candidates of a slot and the relaxation that found them
Ladder(role_candidates, states, slot, cfg, pto_entries) ==
    LET full == gather_candidates(role_candidates, states, slot, cfg, pto_entries, NoIgnore)
        At(t) == gather_candidates(role_candidates, states, slot, cfg, pto_entries,
                                   OrdinaryTiers[t].ignore)
        hit == {t \in DOMAIN OrdinaryTiers : At(t) # <<>>}
    IN  IF full # <<>>
        THEN [candidates |-> full, relaxed_note |-> None, tier |-> 0]
        ELSE IF hit = {}
             THEN [candidates |-> <<>>, relaxed_note |-> None, tier |-> 0]
             ELSE LET t == CHOOSE u \in hit : \A v \in hit : u <= v
                  IN  [candidates |-> At(t), relaxed_note |-> Some(OrdinaryTiers[t].note),
                       tier |-> t]

\* lines 345-366: does the rotation member at index idx (from 0) take the bleach slot
RotationMemberPasses(idx, staff, states, slot, cfg, pto_entries, ignore) ==
    LET rid == cfg.bleach_rotation[idx + 1]
        member == StaffMapGet(staff, rid)
    IN  /\ member # None
        /\ rid \in DOMAIN states
        /\ PassesGather(TheOne(member), states, slot, cfg, pto_entries, ignore)

\* variant: the loops are nested the other way round, every tier of a member
\* before the next member
BleachWalkMut(bleach_cursor, staff, states, slot, cfg, pto_entries) ==
    LET L == Len(cfg.bleach_rotation)
        Idx(offset) == (bleach_cursor + offset) % L
        Passes(t, offset) ==
            RotationMemberPasses(Idx(offset), staff, states, slot, cfg, pto_entries,
                                 BleachTiers[t].ignore)
        hits == {p \in (DOMAIN BleachTiers) \X (0..(L - 1)) : Passes(p[1], p[2])}
    IN  IF hits = {}
        THEN [chosen |-> None, rotation_index_used |-> None, note |-> None, tier |-> 0]
        ELSE LET first == CHOOSE p \in hits : \A q \in hits :
                              p[2] < q[2] \/ (p[2] = q[2] /\ p[1] <= q[1])
             IN  [chosen |-> Some(cfg.bleach_rotation[Idx(first[2]) + 1]),
                  rotation_index_used |-> Some(Idx(first[2])),
                  note |-> BleachTiers[first[1]].note,
                  tier |-> first[1] - 1]

\* lines 343-375: the rotation walk; every offset of a tier before the next tier
BleachWalk(bleach_cursor, staff, states, slot, cfg, pto_entries) ==
    LET L == Len(cfg.bleach_rotation)
        Idx(offset) == (bleach_cursor + offset) % L
        Passes(t, offset) ==
            RotationMemberPasses(Idx(offset), staff, states, slot, cfg, pto_entries,
                                 BleachTiers[t].ignore)
        hits == {p \in (DOMAIN BleachTiers) \X (0..(L - 1)) : Passes(p[1], p[2])}
    IN  IF hits = {}
        THEN [chosen |-> None, rotation_index_used |-> None, note |-> None, tier |-> 0]
        ELSE LET first == CHOOSE p \in hits : \A q \in hits :
                              p[1] < q[1] \/ (p[1] = q[1] /\ p[2] <= q[2])
             IN  [chosen |-> Some(cfg.bleach_rotation[Idx(first[2]) + 1]),
                  rotation_index_used |-> Some(Idx(first[2])),
                  note |-> BleachTiers[first[1]].note,
                  tier |-> first[1] - 1]

\* lines 383-395: one (score + jitter, score, member) entry per candidate, the
\* jitter drawn from the generator in candidate order
RECURSIVE ScoreFrom(_, _, _, _, _, _, _)
ScoreFrom(candidates, i, states, slot, cfg, rng, scored) ==
    IF i > Len(candidates)
    THEN [scored |-> scored, rng |-> rng]
    ELSE LET member == candidates[i]
             off_rotation == /\ slot.is_bleach
                             /\ cfg.bleach_rotation # <<>>
                             /\ member.id \notin SeqSet(cfg.bleach_rotation)
             base == _preference_penalty(member, slot)
                     + (IF off_rotation THEN BLEACH_PENALTY ELSE 0)
             score == _score_candidate(states[member.id], base, FAIRNESS_WEIGHT)
             r == RngNext(rng)
             jitter == r % JITTER_SCALE
         IN  ScoreFrom(candidates, i + 1, states, slot, cfg, r,
                       Append(scored, [key |-> score + jitter, score |-> score,
                                       id |-> member.id]))

\* variant: equal keys go to the larger id
BestScoredMut(scored) ==
    LET Before(a, b) == \/ a.key < b.key
                        \/ a.key = b.key /\ IdRank(a.id) >= IdRank(b.id)
    IN  scored[CHOOSE i \in DOMAIN scored : \A j \in DOMAIN scored :
                    Before(scored[i], scored[j])]

\* lines 396-397: scored.sort(key=(score + jitter, id)); scored[0]
BestScored(scored) ==
    LET Before(a, b) == \/ a.key < b.key
                        \/ a.key = b.key /\ IdRank(a.id) <= IdRank(b.id)
    IN  scored[CHOOSE i \in DOMAIN scored : \A j \in DOMAIN scored :
                    Before(scored[i], scored[j])]

\* week_assignments.setdefault(week_idx, set()).add(day_index)
AddWeekDay(week_assignments, week_idx, day_index) ==
    IF week_idx \in DOMAIN week_assignments
    THEN [week_assignments EXCEPT ![week_idx] = @ \cup {day_index}]
    ELSE week_assignments @@ (week_idx :> {day_index})

\* lines 411-420: the chosen person's run state after taking the slot
UpdateStaffState(member_state, slot, k) ==
    [assignments |-> Append(member_state.assignments, k),
     worked_day_indices |-> Append(member_state.worked_day_indices, slot.day_index),
     week_assignments |-> AddWeekDay(member_state.week_assignments,
                                     WeekIndex(slot.day_index), slot.day_index),
     last_bleach_day |-> IF slot.is_bleach /\ slot.role = "Tech"
                         THEN Some(slot.day_index)
                         ELSE member_state.last_bleach_day,
     last_saturday_week |-> IF slot.day_name = "Sat"
                            THEN Some(WeekIndex(slot.day_index))
                            ELSE member_state.last_saturday_week]

\* variant: the configured cursor is taken as it is
InitialCursorMut(cfg) == cfg.bleach_cursor

\* line 268
InitialCursor(cfg) ==
    IF cfg.bleach_rotation # <<>>
    THEN cfg.bleach_cursor % Len(cfg.bleach_rotation)
    ELSE 0

\* variant: the cursor stays where it is
CursorAfterFailureMut(bleach_cursor, cfg) ==
    bleach_cursor

\* line 379: the cursor after a bleach slot nobody in the rotation could take
CursorAfterFailure(bleach_cursor, cfg) ==
    (bleach_cursor + 1) % Len(cfg.bleach_rotation)

\* variant: the index is not reduced modulo the rotation length
CursorAfterSuccessMut(rotation_index_used, cfg) ==
    rotation_index_used + 1

\* line 418: the cursor after the rotation member at rotation_index_used took the slot
CursorAfterSuccess(rotation_index_used, cfg) ==
    (rotation_index_used + 1) % Len(cfg.bleach_rotation)

\* variant: an open slot is not recorded
AppendUnfilledMut(g, slot, note, relaxed_note, bleach_cursor, rng) ==
    [g EXCEPT
        !.k = g.k + 1,
        !.bleach_cursor = bleach_cursor,
        !.rng = rng,
        !.last = [kind |-> "unfilled", tier |-> 0, rotation_index_used |-> None]]

\* lines 400-406: the slot stays open
AppendUnfilled(g, slot, note, relaxed_note, bleach_cursor, rng) ==
    [g EXCEPT
        !.k = g.k + 1,
        !.assignments = Append(g.assignments,
            [slot |-> g.k, staff_id |-> OPEN_LABEL,
             notes |-> (IF note # None THEN <<TheOne(note)>> ELSE <<>>)
                       \o (IF relaxed_note # None THEN <<TheOne(relaxed_note)>> ELSE <<>>)
                       \o <<"Needs coverage">>]),
        !.bleach_cursor = bleach_cursor,
        !.rng = rng,
        !.last = [kind |-> "unfilled", tier |-> 0, rotation_index_used |-> None]]

\* lines 408-423: the slot goes to chosen_id
AppendFilled(g, slot, chosen_id, note, base_penalty, rotation_index_used, cfg, rng, kind, tier) ==
    LET chosen_state == UpdateStaffState(g.states[chosen_id], slot, g.k)
    IN  [g EXCEPT
            !.k = g.k + 1,
            !.assignments = Append(g.assignments,
                [slot |-> g.k, staff_id |-> chosen_id,
                 notes |-> IF note # None THEN <<TheOne(note)>> ELSE <<>>]),
            !.states = [g.states EXCEPT ![chosen_id] = chosen_state],
            !.bleach_cursor =
                IF slot.is_bleach /\ slot.role = "Tech" /\ rotation_index_used # None
                THEN CursorAfterSuccess(TheOne(rotation_index_used), cfg)
                ELSE g.bleach_cursor,
            !.total_penalty =
                g.total_penalty
                + _score_candidate(chosen_state, base_penalty, FAIRNESS_WEIGHT),
            !.rng = rng,
            !.last = [kind |-> kind, tier |-> tier,
                      rotation_index_used |-> rotation_index_used]]

\* lines 334-379: a bleach slot with a rotation configured
BleachSlotStep(g, slot, staff, cfg, pto_entries, relaxed_note, rng) ==
    LET walk == BleachWalk(g.bleach_cursor, staff, g.states, slot, cfg, pto_entries)
    IN  IF walk.chosen = None
        THEN AppendUnfilled(g, slot, Some("Bleach rotation unavailable"), relaxed_note,
                            CursorAfterFailure(g.bleach_cursor, cfg), rng)
        ELSE LET id == TheOne(walk.chosen)
                 member == TheOne(StaffMapGet(staff, id))
             IN  AppendFilled(g, slot, id, walk.note, _preference_penalty(member, slot),
                              walk.rotation_index_used, cfg, rng, "bleach", walk.tier)

\* lines 381-398: an ordinary slot with at least one candidate
OrdinarySlotStep(g, slot, cfg, lad, rng) ==
    LET sc == ScoreFrom(lad.candidates, 1, g.states, slot, cfg, rng, <<>>)
        best == BestScored(sc.scored)
        base_penalty == best.score - FAIRNESS_WEIGHT * total_assignments(g.states[best.id])
    IN  AppendFilled(g, slot, best.id, None, base_penalty, None, cfg, sc.rng,
                     "ordinary", lad.tier)

\* variant: a bleach slot nobody took in the rotation branch goes on to
\* ordinary scoring
SlotStepMut(g, slot, staff, cfg, pto_entries) ==
    LET role_candidates == StaffByRole(staff, slot.role)
        sh == IF role_candidates # <<>>
              THEN Shuffle(role_candidates, g.rng)
              ELSE [x |-> role_candidates, rng |-> g.rng]
        lad == Ladder(sh.x, g.states, slot, cfg, pto_entries)
    IN  IF slot.is_bleach /\ cfg.bleach_rotation # <<>>
        THEN BleachSlotStep(g, slot, staff, cfg, pto_entries, lad.relaxed_note, sh.rng)
        ELSE IF lad.candidates # <<>>
             THEN OrdinarySlotStep(g, slot, cfg, lad, sh.rng)
             ELSE AppendUnfilled(g, slot, None, lad.relaxed_note, g.bleach_cursor, sh.rng)

\* lines 272-423: one pass of the slot loop
SlotStep(g, slot, staff, cfg, pto_entries) ==
    LET role_candidates == StaffByRole(staff, slot.role)
        sh == IF role_candidates # <<>>
              THEN Shuffle(role_candidates, g.rng)
              ELSE [x |-> role_candidates, rng |-> g.rng]
        lad == Ladder(sh.x, g.states, slot, cfg, pto_entries)
    IN  IF slot.is_bleach /\ cfg.bleach_rotation # <<>>
        THEN BleachSlotStep(g, slot, staff, cfg, pto_entries, lad.relaxed_note, sh.rng)
        ELSE IF lad.candidates # <<>> /\ ~slot.is_bleach
             THEN OrdinarySlotStep(g, slot, cfg, lad, sh.rng)
             ELSE AppendUnfilled(g, slot, None, lad.relaxed_note, g.bleach_cursor, sh.rng)

StaffIds(staff) == {staff[i].id : i \in DOMAIN staff}

\* lines 255-270: the locals before the slot loop
NewGen(staff, cfg, rng) ==
    [k |-> 1,
     states |-> [id \in StaffIds(staff) |-> NewStaffState],
     assignments |-> <<>>,
     bleach_cursor |-> InitialCursor(cfg),
     total_penalty |-> 0,
     rng |-> rng,
     last |-> [kind |-> "none", tier |-> 0, rotation_index_used |-> None]]

\* lines 425-435
MakeResult(g, rng_seed) ==
    [kind |-> "ok",
     assignments |-> g.assignments,
     bleach_cursor |-> g.bleach_cursor,
     total_penalty |-> g.total_penalty,
     stats |-> [id \in DOMAIN g.states |-> total_assignments(g.states[id])],
     seed |-> rng_seed]

\* _ensure_requirements raised
ValueError == [kind |-> "ValueError"]

\* line 58: requirements[day_name] raised
KeyError == [kind |-> "KeyError"]

RECURSIVE RunSlots(_, _, _, _, _)
RunSlots(g, sl, staff, cfg, pto_entries) ==
    IF g.k > Len(sl)
    THEN g
    ELSE RunSlots(SlotStep(g, sl[g.k], staff, cfg, pto_entries), sl, staff, cfg, pto_entries)

\* generate_schedule(staff, requirements, cfg, pto_entries, rng_seed=rng_seed), as one call
\* rng is the state random.Random(rng_seed) starts in
generate_schedule(staff, requirements, cfg, pto_entries, rng_seed, rng) ==
    IF MissingDays(requirements) # {}
    THEN ValueError
    ELSE IF ~HasEveryDay(requirements)
    THEN KeyError
    ELSE MakeResult(RunSlots(NewGen(staff, cfg, rng),
                             _build_slots(ReqMap(requirements), cfg),
                             staff, cfg, pto_entries),
                    rng_seed)

---------------------------------------------------------------------------
(* The inputs the model draws from *)

MaxWeeks == 2
MaxCursor == 1
MaxSeed == 1
MaxEntropy == 1

\* the states random.Random(None) can start in: the system's entropy decides
EntropyStates == 0..MaxEntropy

\* variant: a seeded generator starts from the system's entropy as well
RngStatesMut(rng_seed) == EntropyStates

\* the states random.Random(rng_seed) can start in
RngStates(rng_seed) == { NewRng(rng_seed, entropy) : entropy \in EntropyStates }

AllDays == [d \in DaySet |-> TRUE]
NoSat == [d \in DaySet |-> d # "Sat"]
NoWedKey == [d \in DaySet \ {"Wed"} |-> TRUE]

Neutral ==
    [open_mwf |-> 4000, open_tts |-> 4000, mid_mwf |-> 4000,
     mid_tts |-> 4000, close_mwf |-> 4000, close_tts |-> 4000]
LikesClose == [Neutral EXCEPT !.close_mwf = 2000, !.close_tts = 2000]
SlightlyLikesOpen == [Neutral EXCEPT !.open_mwf = 3998, !.open_tts = 3998]

Member(id, role, can_open, can_close, can_bleach, availability, preferences) ==
    [id |-> id, role |-> role, can_open |-> can_open, can_close |-> can_close,
     can_bleach |-> can_bleach, availability |-> availability,
     preferences |-> preferences]

FullStaff ==
    << Member("t1", "Tech", TRUE, TRUE, TRUE, AllDays, Neutral),
       Member("t2", "Tech", FALSE, TRUE, TRUE, AllDays, LikesClose),
       Member("t3", "Tech", TRUE, TRUE, FALSE, AllDays, SlightlyLikesOpen),
       Member("r1", "RN", FALSE, FALSE, FALSE, AllDays, Neutral),
       Member("a1", "Admin", FALSE, FALSE, FALSE, AllDays, Neutral) >>

ShortStaff ==
    << Member("t3", "Tech", TRUE, FALSE, TRUE, NoWedKey, Neutral),
       Member("r1", "RN", FALSE, FALSE, TRUE, AllDays, Neutral),
       Member("t1", "Tech", TRUE, TRUE, TRUE, NoSat, Neutral),
       Member("t2", "Tech", TRUE, TRUE, TRUE, AllDays, Neutral) >>

Req(day_name, patient_count, tech_openers, tech_mids, tech_closers, rn_count, admin_count) ==
    [day_name |-> day_name, patient_count |-> patient_count,
     tech_openers |-> tech_openers, tech_mids |-> tech_mids,
     tech_closers |-> tech_closers, rn_count |-> rn_count,
     admin_count |-> admin_count]

EvenWeek == [i \in 1..6 |-> Req(DAYS[i], 8, 1, 0, 1, 1, 1)]

\* uneven counts, counts the ratios raise, and Mon given twice
UnevenWeek ==
    << Req("Mon", 12, 1, 0, 1, 0, 0), Req("Tue", 4, 0, 0, 2, 0, 1),
       Req("Wed", 0, 1, 0, 1, 1, 0), Req("Thu", 8, 1, 1, 1, 0, 0),
       Req("Fri", 4, 0, 1, 0, 0, 0), Req("Sat", 4, 1, 0, 1, 0, 1),
       Req("Mon", 8, 1, 0, 1, 0, 0) >>

\* no entry for Thu
MissingThu ==
    << Req("Mon", 8, 1, 0, 1, 1, 1), Req("Tue", 8, 1, 0, 1, 1, 1),
       Req("Wed", 8, 1, 0, 1, 1, 1), Req("Fri", 8, 1, 0, 1, 1, 1),
       Req("Sat", 8, 1, 0, 1, 1, 1), Req("Sun", 8, 1, 0, 1, 1, 1) >>

\* 2025-02-03 is a Monday, 2025-01-09 a Thursday
CalendarOptions ==
    { [start_date |-> 33, bleach_frequency |-> "weekly", bleach_day |-> "Tue"],
      [start_date |-> 33, bleach_frequency |-> "Quarterly", bleach_day |-> "Sat"],
      [start_date |-> 8, bleach_frequency |-> "", bleach_day |-> "Sat"] }

RotationOptions ==
    { <<>>, <<"t1">>, <<"t2", "t1">>, <<"t3", "zz", "t1", "r1">> }

Toggles(three_day, post_bleach, alt_sat, tech_four, rn_four) ==
    [enforce_three_day_cap |-> three_day, enforce_post_bleach_rest |-> post_bleach,
     enforce_alt_saturdays |-> alt_sat, limit_tech_four_days |-> tech_four,
     limit_rn_four_days |-> rn_four]

\* all on, all off, the defaults of ConstraintToggles, and each rule alone
ToggleOptions ==
    { Toggles(TRUE, TRUE, TRUE, TRUE, TRUE), Toggles(FALSE, FALSE, FALSE, FALSE, FALSE),
      Toggles(TRUE, TRUE, TRUE, FALSE, FALSE), Toggles(TRUE, FALSE, FALSE, FALSE, FALSE),
      Toggles(FALSE, TRUE, FALSE, FALSE, FALSE), Toggles(FALSE, FALSE, TRUE, FALSE, FALSE),
      Toggles(FALSE, FALSE, FALSE, TRUE, FALSE), Toggles(FALSE, FALSE, FALSE, FALSE, TRUE) }

NoPto == {}
SomePto ==
    { [staff_id |-> "t1", date |-> 34], [staff_id |-> "t2", date |-> 34],
      [staff_id |-> "t1", date |-> 38], [staff_id |-> "r1", date |-> 40],
      [staff_id |-> "t1", date |-> 9], [staff_id |-> "t2", date |-> 13],
      [staff_id |-> "r1", date |-> 12] }

ConfigOptions ==
    { [clinic_name |-> "clinic", timezone |-> "UTC",
       start_date |-> cal.start_date, weeks |-> w, bleach_day |-> cal.bleach_day,
       bleach_rotation |-> rot, bleach_cursor |-> cur,
       bleach_frequency |-> cal.bleach_frequency,
       patients_per_tech |-> 4, patients_per_rn |-> 12, techs_per_rn |-> 4,
       toggles |-> tg] :
         cal \in CalendarOptions, w \in 1..MaxWeeks,
         rot \in RotationOptions, cur \in 0..MaxCursor, tg \in ToggleOptions }

\* staff, requirements and leave entries that go together
RosterOptions ==
    { [staff |-> FullStaff, requirements |-> EvenWeek, pto_entries |-> NoPto],
      [staff |-> FullStaff, requirements |-> UnevenWeek, pto_entries |-> SomePto],
      [staff |-> ShortStaff, requirements |-> EvenWeek, pto_entries |-> SomePto],
      [staff |-> ShortStaff, requirements |-> UnevenWeek, pto_entries |-> NoPto],
      [staff |-> FullStaff, requirements |-> MissingThu, pto_entries |-> NoPto] }

CallOptions ==
    { [staff |-> ro.staff, requirements |-> ro.requirements, cfg |-> cfg,
       pto_entries |-> ro.pto_entries, rng_seed |-> Some(seed)] :
         ro \in RosterOptions, cfg \in ConfigOptions, seed \in 0..MaxSeed }

---------------------------------------------------------------------------
(* Spec: one call of generate_schedule, one slot per step *)

\* the fields of cfg that _build_slots reads
SlotCfg(cfg) ==
    [start_date |-> cfg.start_date, weeks |-> cfg.weeks,
     bleach_day |-> cfg.bleach_day, bleach_frequency |-> cfg.bleach_frequency,
     patients_per_tech |-> cfg.patients_per_tech,
     patients_per_rn |-> cfg.patients_per_rn, techs_per_rn |-> cfg.techs_per_rn]

RECURSIVE SetToSeq(_)
SetToSeq(S) ==
    IF S = {} THEN <<>>
    ELSE LET x == CHOOSE y \in S : TRUE IN <<x>> \o SetToSeq(S \ {x})

\* the distinct inputs of _build_slots among the calls
SlotInputs ==
    SetToSeq({<<c.requirements, SlotCfg(c.cfg)>> :
                 c \in {d \in CallOptions : HasEveryDay(d.requirements)}})

\* the lists _build_slots builds, one per distinct input; the state refers to
\* its list by position in this table
SlotLists ==
    [n \in DOMAIN SlotInputs |->
        _build_slots(ReqMap(SlotInputs[n][1]), SlotInputs[n][2])]

SlotsRef(requirements, cfg) ==
    CHOOSE n \in DOMAIN SlotInputs : SlotInputs[n] = <<requirements, SlotCfg(cfg)>>

\* line 252: slots = _build_slots(req_map, cfg), the slot list of the call
slots == SlotLists[slots_ref]

Idle == [k |-> 0]
NoResult == [kind |-> "none"]

Init ==
    /\ pc = "call"
    /\ inp \in CallOptions
    /\ slots_ref = 0
    /\ gen = Idle
    /\ result = NoResult
    /\ tour = Idle
    /\ ls = Idle

\* lines 251-270: the requirements are complete
Start ==
    /\ pc = "call"
    /\ MissingDays(inp.requirements) = {}
    /\ IF HasEveryDay(inp.requirements)
       THEN /\ pc' = "slots"
            /\ slots_ref' = SlotsRef(inp.requirements, inp.cfg)
            /\ \E rng \in RngStates(inp.rng_seed) :
                  gen' = NewGen(inp.staff, inp.cfg, rng)
            /\ result' = result
       ELSE /\ pc' = "raised"
            /\ result' = KeyError
            /\ UNCHANGED <<slots_ref, gen>>
    /\ UNCHANGED <<inp, tour, ls>>

\* lines 251 and 44-46: a weekday has no requirement
StartFails ==
    /\ pc = "call"
    /\ MissingDays(inp.requirements) # {}
    /\ pc' = "raised"
    /\ result' = ValueError
    /\ UNCHANGED <<inp, slots_ref, gen, tour, ls>>

\* lines 272-423: the next slot
NextSlot ==
    /\ pc = "slots"
    /\ gen.k <= Len(slots)
    /\ gen' = SlotStep(gen, slots[gen.k], inp.staff, inp.cfg, inp.pto_entries)
    /\ UNCHANGED <<pc, inp, slots_ref, result, tour, ls>>

\* lines 425-435
Return ==
    /\ pc = "slots"
    /\ gen.k > Len(slots)
    /\ pc' = "done"
    /\ result' = MakeResult(gen, inp.rng_seed)
    /\ UNCHANGED <<inp, slots_ref, gen, tour, ls>>

Next == Start \/ StartFails \/ NextSlot \/ Return

Spec == Init /\ [][Next]_vars

---------------------------------------------------------------------------
(* tournament.py: run_tournament, one trial per step.  The caller calls it,
   replays the winning seed with generate_schedule, and calls it again with
   the same arguments. *)

MaxTrials == 2
MaxBaseSeed == 1
TournamentConfigs ==
    { cfg \in ConfigOptions :
        /\ cfg.weeks = 1
        /\ cfg.bleach_rotation = <<"t2", "t1">>
        /\ cfg.bleach_cursor = 0
        /\ cfg.toggles \in { Toggles(TRUE, TRUE, TRUE, FALSE, FALSE),
                             Toggles(TRUE, TRUE, TRUE, TRUE, TRUE) } }

TournamentCalls ==
    { [staff |-> ro.staff, requirements |-> ro.requirements, cfg |-> cfg,
       pto_entries |-> ro.pto_entries, trials |-> n, base_seed |-> b] :
         ro \in RosterOptions, cfg \in TournamentConfigs, n \in 0..MaxTrials,
         b \in {None} \cup {Some(x) : x \in 0..MaxBaseSeed} }

\* line 19
TrialCount(trials) == Max2(1, trials)

\* line 20: seed_source = random.Random(base_seed)
SeedSource(base_seed, entropy) ==
    IF base_seed # None THEN RngSeed(TheOne(base_seed)) ELSE entropy

\* variant: every trial gets the base seed
TrialSeedMut(base_seed, i, drawn) ==
    IF base_seed # None THEN TheOne(base_seed) ELSE drawn

\* line 25: the seed of trial i (from 0); drawn is seed_source.randrange(1 << 30)
TrialSeed(base_seed, i, drawn) ==
    IF base_seed # None THEN TheOne(base_seed) + i ELSE drawn

\* variant: the comparison is reversed
ImprovesMutHigher(res, best_result) ==
    \/ best_result = None
    \/ res.total_penalty > TheOne(best_result).total_penalty

\* variant: a tie replaces the best
ImprovesMutTie(res, best_result) ==
    \/ best_result = None
    \/ res.total_penalty <= TheOne(best_result).total_penalty

\* line 34
Improves(res, best_result) ==
    \/ best_result = None
    \/ res.total_penalty < TheOne(best_result).total_penalty

InitTournament ==
    /\ pc = "t_call"
    /\ inp \in TournamentCalls
    /\ slots_ref = 0
    /\ gen = Idle
    /\ result = NoResult
    /\ tour = [run |-> 1, first |-> None, replay |-> None]
    /\ ls = Idle

\* lines 19-22
TournamentStart ==
    /\ pc = "t_call"
    /\ \E entropy \in EntropyStates :
          tour' = [run |-> tour.run, first |-> tour.first, replay |-> tour.replay,
                   trials |-> TrialCount(inp.trials),
                   seed_source |-> SeedSource(inp.base_seed, entropy),
                   i |-> 0, best_result |-> None, best_seed |-> None,
                   ran |-> <<>>, returned |-> None]
    /\ pc' = "t_loop"
    /\ UNCHANGED <<inp, slots_ref, gen, result, ls>>

\* lines 24-36: one trial
TournamentTrial ==
    /\ pc = "t_loop"
    /\ tour.i < tour.trials
    /\ \E rng \in RngStates(Some(TrialSeed(inp.base_seed, tour.i,
                                             RngNext(tour.seed_source)))) :
       LET drawn == RngNext(tour.seed_source)
           seed == TrialSeed(inp.base_seed, tour.i, drawn)
           made == generate_schedule(inp.staff, inp.requirements, inp.cfg,
                                     inp.pto_entries, Some(seed), rng)
           res == IF made.kind = "ok" THEN [made EXCEPT !.seed = Some(seed)] ELSE made
       IN  IF res.kind # "ok"
           THEN /\ pc' = "t_raised"
                /\ tour' = tour
           ELSE /\ pc' = pc
                /\ tour' = [tour EXCEPT
                      !.seed_source = IF inp.base_seed # None THEN @ ELSE drawn,
                      !.i = @ + 1,
                      !.best_result = IF Improves(res, tour.best_result)
                                      THEN Some(res) ELSE @,
                      !.best_seed = IF Improves(res, tour.best_result)
                                    THEN Some(seed) ELSE @,
                      !.ran = Append(@, res)]
    /\ UNCHANGED <<inp, slots_ref, gen, result, ls>>

\* lines 38-40
TournamentReturn ==
    /\ pc = "t_loop"
    /\ tour.i = tour.trials
    /\ tour' = [tour EXCEPT !.returned =
                  Some([result |-> [TheOne(tour.best_result) EXCEPT !.seed = tour.best_seed],
                        seed |-> TheOne(tour.best_seed)])]
    /\ pc' = "t_done"
    /\ UNCHANGED <<inp, slots_ref, gen, result, ls>>

\* the caller: generate_schedule with rng_seed set to the seed returned
Replay ==
    /\ pc = "t_done"
    /\ tour.run = 1
    /\ \E rng \in RngStates(Some(TheOne(tour.returned).seed)) :
          tour' = [tour EXCEPT !.replay =
                     Some(generate_schedule(inp.staff, inp.requirements, inp.cfg,
                                            inp.pto_entries,
                                            Some(TheOne(tour.returned).seed), rng))]
    /\ pc' = "t_replayed"
    /\ UNCHANGED <<inp, slots_ref, gen, result, ls>>

\* the caller: run_tournament again, same arguments
CallAgain ==
    /\ pc = "t_replayed"
    /\ tour' = [run |-> 2, first |-> tour.returned, replay |-> tour.replay]
    /\ pc' = "t_call"
    /\ UNCHANGED <<inp, slots_ref, gen, result, ls>>

NextTournament ==
    TournamentStart \/ TournamentTrial \/ TournamentReturn \/ Replay \/ CallAgain

SpecTournament == InitTournament /\ [][NextTournament]_vars

---------------------------------------------------------------------------
(* SpecRequest: one POST /schedule/run (api/main.py, run_schedule), which
   calls run_tournament; a trial per step *)

\* the request bodies: the staff list may be empty, the requirements may have
\* seven entries, or six with Mon given twice and Thu left out
RequestOptions ==
    { [staff |-> st, requirements |-> rq, cfg |-> cfg, pto_entries |-> NoPto,
       trials |-> n, base_seed |-> b] :
         st \in {<<>>, FullStaff, ShortStaff},
         rq \in {EvenWeek, UnevenWeek,
                 [EvenWeek EXCEPT ![4] = Req("Mon", 8, 1, 0, 1, 1, 1)]},
         cfg \in TournamentConfigs, n \in 1..MaxTrials,
         b \in {None} \cup {Some(x) : x \in 0..MaxBaseSeed} }

\* variant: the staff list is not looked at
RejectsMut(staff_members, requirements) ==
    Len(requirements) # Len(DAYS)

\* lines 559-560 and 573-574: the two checks that raise ValueError
Rejects(staff_members, requirements) ==
    \/ staff_members = <<>>
    \/ Len(requirements) # Len(DAYS)

\* lines 711-713: any exception becomes HTTPException(status_code=400)
HTTPException == [kind |-> "HTTPException", status_code |-> 400]

InitRequest ==
    /\ pc = "r_request"
    /\ inp \in RequestOptions
    /\ slots_ref = 0
    /\ gen = Idle
    /\ result = NoResult
    /\ tour = [run |-> 1, first |-> None, replay |-> None]
    /\ ls = Idle

\* lines 557-592: the checks, then the call of run_tournament
RequestReceived ==
    /\ pc = "r_request"
    /\ IF Rejects(inp.staff, inp.requirements)
       THEN /\ pc' = "r_400"
            /\ result' = HTTPException
       ELSE /\ pc' = "t_call"
            /\ result' = result
    /\ UNCHANGED <<inp, slots_ref, gen, tour, ls>>

\* lines 711-713: run_tournament raised
RequestFails ==
    /\ pc = "t_raised"
    /\ pc' = "r_400"
    /\ result' = HTTPException
    /\ UNCHANGED <<inp, slots_ref, gen, tour, ls>>

\* lines 593-710: the response made of the pair run_tournament returned
RequestResponds ==
    /\ pc = "t_done"
    /\ pc' = "r_200"
    /\ result' = [kind |-> "ScheduleResponse",
                  assignments |-> TheOne(tour.returned).result.assignments,
                  bleach_cursor |-> TheOne(tour.returned).result.bleach_cursor,
                  total_penalty |-> TheOne(tour.returned).result.total_penalty,
                  stats |-> TheOne(tour.returned).result.stats,
                  winning_seed |-> TheOne(tour.returned).seed]
    /\ UNCHANGED <<inp, slots_ref, gen, tour, ls>>

NextRequest ==
    \/ RequestReceived
    \/ TournamentStart
    \/ TournamentTrial
    \/ TournamentReturn
    \/ RequestFails
    \/ RequestResponds

SpecRequest == InitRequest /\ [][NextRequest]_vars

---------------------------------------------------------------------------
(* SpecSlots: one call of _build_slots *)

\* the requirements and the fields of cfg that _build_slots reads: any start
\* date of a fortnight, any special-duty weekday, the frequency modes, ratios
\* that raise the counts and ratios of zero
SlotCalls ==
    { [requirements |-> rq,
       cfg |-> [start_date |-> sd, weeks |-> w, bleach_day |-> bd,
                bleach_frequency |-> fq, patients_per_tech |-> ratio.tech,
                patients_per_rn |-> ratio.rn, techs_per_rn |-> ratio.per_rn]] :
         rq \in {EvenWeek, UnevenWeek}, sd \in {8, 19, 33, 36, 47},
         w \in 1..MaxWeeks,
         bd \in DaySet, fq \in {"weekly", "Quarterly", "", "custom"},
         ratio \in { [tech |-> 4, rn |-> 12, per_rn |-> 4],
                     [tech |-> 0, rn |-> 0, per_rn |-> 0],
                     [tech |-> 3, rn |-> 4, per_rn |-> 2],
                     [tech |-> 2, rn |-> 12, per_rn |-> 1] } }

InitSlots ==
    /\ pc = "b_call"
    /\ inp \in SlotCalls
    /\ slots_ref = 0
    /\ gen = Idle
    /\ result = NoResult
    /\ tour = Idle
    /\ ls = Idle

\* lines 54-138, on the map _ensure_requirements returned
BuildSlots ==
    /\ pc = "b_call"
    /\ pc' = "b_built"
    /\ result' = [kind |-> "slots",
                  slots |-> _build_slots(ReqMap(inp.requirements), inp.cfg)]
    /\ UNCHANGED <<inp, slots_ref, gen, tour, ls>>

SpecSlots == InitSlots /\ [][BuildSlots]_vars

---------------------------------------------------------------------------
(* local_search.py: improve_by_swaps, one iteration per step.  A roster is a
   list of (slot, staff id or None); times are hours since 2025-01-01 00:00. *)

MaxIterations == 3

\* slots_v2.DOW
DOW == <<"Mon", "Tue", "Wed", "Thu", "Fri", "Sat", "Sun">>

\* generate_v2.score: the roster's aggregate penalty, the sum over its filled
\* slots of the holder's preference weight for the slot's shift
score(current, cfg) ==
    LET Weight(a) == IF a.sid = None THEN 0
                     ELSE cfg.weights[TheOne(a.sid)][a.slot.shift]
        RECURSIVE Sum(_)
        Sum(i) == IF i = 0 THEN 0 ELSE Sum(i - 1) + Weight(current[i])
    IN  Sum(Len(current))

\* sorted(blocks, key=lambda x: x[0]): stable, by start
RECURSIVE SortedByStart(_)
SortedByStart(blocks) ==
    IF blocks = <<>>
    THEN <<>>
    ELSE LET n == Len(blocks)
             b == blocks[n]
             head == SortedByStart(SubSeq(blocks, 1, n - 1))
             before == {i \in DOMAIN head : head[i].start_dt <= b.start_dt}
             at == Cardinality(before)
         IN  SubSeq(head, 1, at) \o <<b>> \o SubSeq(head, at + 1, Len(head))

\* _feasible_for_staff, lines 18-27: the availability and rest tests of block i
BlockOk(st, blocks, i, cfg) ==
    LET key == DOW[WeekdayOf(blocks[i].start_dt \div 24) + 1]
    IN  /\ (key \in DOMAIN st.availability => st.availability[key])
        /\ (i > 1 => ~(blocks[i].start_dt - blocks[i - 1].end_dt
                          < cfg.constraints.min_rest_hours))

\* _feasible_for_staff, line 27: the hours of all the blocks
RECURSIVE TotalHours(_, _)
TotalHours(blocks, i) ==
    IF i = 0 THEN 0
    ELSE TotalHours(blocks, i - 1) + (blocks[i].end_dt - blocks[i].start_dt)

\* _feasible_for_staff
_feasible_for_staff(staff_id, person_slots, cfg) ==
    LET found == {i \in DOMAIN cfg.staff : cfg.staff[i].id = staff_id}
        st == cfg.staff[CHOOSE i \in found : \A j \in found : i <= j]
        blocks == SortedByStart(person_slots)
    IN  /\ found # {}
        /\ \A i \in DOMAIN blocks : BlockOk(st, blocks, i, cfg)
        /\ ~(TotalHours(blocks, Len(blocks)) > cfg.constraints.max_hours_per_week)
        /\ \A i \in 2..Len(blocks) :
              \/ blocks[i - 1].end_dt <= blocks[i].start_dt
              \/ blocks[i].end_dt <= blocks[i - 1].start_dt

\* lines 60-61: [slot for slot, s in current if s == sid]
SlotsOf(current, sid) ==
    LET Held(a) == a.sid = sid
        mine == SelectSeq(current, Held)
    IN  [i \in DOMAIN mine |-> mine[i].slot]

\* lines 43-45: role_indices
RoleIndices(current) ==
    [r \in {current[i].slot.role : i \in DOMAIN current} |->
        {i \in DOMAIN current : current[i].slot.role = r}]

\* variant: both positions receive the second position's person
SwappedMut(current, i, j) ==
    [current EXCEPT ![i] = [slot |-> current[i].slot, sid |-> current[j].sid],
                    ![j] = [slot |-> current[j].slot, sid |-> current[j].sid]]

\* lines 57-58
Swapped(current, i, j) ==
    [current EXCEPT ![i] = [slot |-> current[i].slot, sid |-> current[j].sid],
                    ![j] = [slot |-> current[j].slot, sid |-> current[i].sid]]

\* line 54: the pair is skipped
SkipsPair(current, i, j) ==
    \/ current[i].sid = None
    \/ current[j].sid = None
    \/ current[i].sid = current[j].sid

\* line 62
BothFeasible(swapped, si, sj, cfg) ==
    /\ _feasible_for_staff(si, SlotsOf(swapped, Some(si)), cfg)
    /\ _feasible_for_staff(sj, SlotsOf(swapped, Some(sj)), cfg)

\* line 64
\* variant: the comparison is reversed
AcceptsMut(new_score, best) == new_score >= best

Accepts(new_score, best) == new_score <= best

\* variant: a swap that leaves a person infeasible is not put back
SwapIterationMut(l, i, j, cfg) ==
    IF SkipsPair(l.current, i, j)
    THEN [l EXCEPT !.it = @ + 1, !.last = "skipped"]
    ELSE LET swapped == Swapped(l.current, i, j)
             si == TheOne(l.current[i].sid)
             sj == TheOne(l.current[j].sid)
         IN  IF BothFeasible(swapped, si, sj, cfg)
             THEN IF Accepts(score(swapped, cfg), l.best)
                  THEN [l EXCEPT !.it = @ + 1, !.current = swapped,
                                 !.best = score(swapped, cfg),
                                 !.accepted = @ + 1, !.last = "accepted"]
                  ELSE [l EXCEPT !.it = @ + 1, !.last = "worse"]
             ELSE [l EXCEPT !.it = @ + 1, !.current = swapped, !.last = "infeasible"]

\* variant: a kept swap leaves the tracked best score as it was
SwapIterationStaleMut(l, i, j, cfg) ==
    IF SkipsPair(l.current, i, j)
    THEN [l EXCEPT !.it = @ + 1, !.last = "skipped"]
    ELSE LET swapped == Swapped(l.current, i, j)
             si == TheOne(l.current[i].sid)
             sj == TheOne(l.current[j].sid)
         IN  IF BothFeasible(swapped, si, sj, cfg)
             THEN IF Accepts(score(swapped, cfg), l.best)
                  THEN [l EXCEPT !.it = @ + 1, !.current = swapped,
                                 !.accepted = @ + 1, !.last = "accepted"]
                  ELSE [l EXCEPT !.it = @ + 1, !.last = "worse"]
             ELSE [l EXCEPT !.it = @ + 1, !.last = "infeasible"]

\* lines 52-72: the iteration that drew the pair (i, j)
SwapIteration(l, i, j, cfg) ==
    IF SkipsPair(l.current, i, j)
    THEN [l EXCEPT !.it = @ + 1, !.last = "skipped"]
    ELSE LET swapped == Swapped(l.current, i, j)
             si == TheOne(l.current[i].sid)
             sj == TheOne(l.current[j].sid)
         IN  IF BothFeasible(swapped, si, sj, cfg)
             THEN IF Accepts(score(swapped, cfg), l.best)
                  THEN [l EXCEPT !.it = @ + 1, !.current = swapped,
                                 !.best = score(swapped, cfg),
                                 !.accepted = @ + 1, !.last = "accepted"]
                  ELSE [l EXCEPT !.it = @ + 1, !.last = "worse"]
             ELSE [l EXCEPT !.it = @ + 1, !.last = "infeasible"]

Shift(role, shift, start_dt, end_dt) ==
    [role |-> role, shift |-> shift, start_dt |-> start_dt, end_dt |-> end_dt]

Held(slot, sid) == [slot |-> slot, sid |-> sid]

\* hour 792 is Monday 2025-02-03 00:00
TwoDayRoster ==
    << Held(Shift("Tech", "open", 798, 806), Some("t1")),
       Held(Shift("Tech", "close", 804, 812), Some("t2")),
       Held(Shift("RN", "open", 798, 806), Some("r1")),
       Held(Shift("Tech", "open", 822, 830), Some("t3")),
       Held(Shift("Tech", "close", 828, 836), Some("t1")),
       Held(Shift("Tech", "close", 828, 836), None) >>

ThreeDayRoster ==
    << Held(Shift("Tech", "open", 798, 806), Some("t2")),
       Held(Shift("Tech", "close", 828, 836), Some("t2")),
       Held(Shift("Tech", "open", 846, 854), Some("t1")),
       Held(Shift("RN", "open", 798, 806), Some("r1")),
       Held(Shift("RN", "open", 822, 830), Some("zz")),
       Held(Shift("Tech", "close", 852, 860), Some("t3")) >>

\* two weeks: hour 1038 is Thursday 2025-02-13 06:00
TwoWeekRoster ==
    << Held(Shift("Tech", "open", 798, 806), Some("t1")),
       Held(Shift("Tech", "close", 822, 832), Some("t3")),
       Held(Shift("Tech", "open", 1038, 1046), Some("t1")),
       Held(Shift("RN", "open", 798, 806), Some("r1")) >>

SwapStaff ==
    << [id |-> "t1", availability |-> [d \in {"Mon", "Tue"} |-> TRUE]],
       [id |-> "t2", availability |-> [d \in {"Mon", "Tue", "Wed"} |-> d # "Tue"]],
       [id |-> "t3", availability |-> [d \in {} |-> TRUE]],
       [id |-> "r1", availability |-> [d \in {} |-> TRUE]] >>

SwapWeights ==
    { [id \in {"t1", "t2", "t3", "r1", "zz"} |-> [sh \in {"open", "close"} |-> 4000]],
      [id \in {"t1", "t2", "t3", "r1", "zz"} |->
          [sh \in {"open", "close"} |->
              IF (id = "t1") = (sh = "open") THEN 2000 ELSE 4000]],
      [id \in {"t1", "t2", "t3", "r1", "zz"} |->
          [sh \in {"open", "close"} |->
              IF id = "t3" /\ sh = "open" THEN 6000 ELSE 4000]] }

SwapConfigs ==
    { [staff |-> SwapStaff, weights |-> w,
       constraints |-> [min_rest_hours |-> rest, max_hours_per_week |-> hours]] :
         w \in SwapWeights, rest \in {0, 10}, hours \in {16, 40} }

SwapCalls ==
    { [assignments |-> a, cfg |-> cfg, iterations |-> n] :
         a \in {<<>>, TwoDayRoster, ThreeDayRoster, TwoWeekRoster},
         cfg \in SwapConfigs,
         n \in 0..MaxIterations }

InitRefine ==
    /\ pc = "ls_call"
    /\ inp \in SwapCalls
    /\ slots_ref = 0
    /\ gen = Idle
    /\ result = NoResult
    /\ tour = Idle
    /\ ls = Idle

\* lines 38-45
RefineStart ==
    /\ pc = "ls_call"
    /\ ls' = [current |-> inp.assignments, best |-> score(inp.assignments, inp.cfg),
              accepted |-> 0, it |-> 0, last |-> "none", returned |-> None]
    /\ pc' = "ls_loop"
    /\ UNCHANGED <<inp, slots_ref, gen, result, tour>>

\* lines 47-72: one iteration; rnd.choice picks the role, rnd.sample the pair
RefineIteration ==
    /\ pc = "ls_loop"
    /\ ls.it < inp.iterations
    /\ \E role \in DOMAIN RoleIndices(ls.current) :
          LET idxs == RoleIndices(ls.current)[role]
          IN  IF Cardinality(idxs) < 2
              THEN ls' = [ls EXCEPT !.it = @ + 1, !.last = "skipped"]
              ELSE \E i \in idxs : \E j \in idxs \ {i} :
                      ls' = SwapIteration(ls, i, j, inp.cfg)
    /\ UNCHANGED <<pc, inp, slots_ref, gen, result, tour>>

\* line 48: rnd.choice of an empty list raises IndexError
RefineRaises ==
    /\ pc = "ls_loop"
    /\ ls.it < inp.iterations
    /\ DOMAIN RoleIndices(ls.current) = {}
    /\ pc' = "ls_raised"
    /\ UNCHANGED <<inp, slots_ref, gen, result, tour, ls>>

\* line 74
RefineReturn ==
    /\ pc = "ls_loop"
    /\ ls.it = inp.iterations
    /\ ls' = [ls EXCEPT !.returned =
                Some([current |-> ls.current, best |-> ls.best, accepted |-> ls.accepted])]
    /\ pc' = "ls_done"
    /\ UNCHANGED <<inp, slots_ref, gen, result, tour>>

NextRefine == RefineStart \/ RefineIteration \/ RefineRaises \/ RefineReturn

SpecRefine == InitRefine /\ [][NextRefine]_vars


\* ---------------------------------------------------------------------------
\* Properties of one generate_schedule call (Spec)
\* ---------------------------------------------------------------------------

\* the roster a finished call returned
Roster == IF pc = "done" THEN result.assignments ELSE <<>>

\* the roster built so far, and after the return the roster returned
Building ==
    IF pc = "slots" THEN gen.assignments
    ELSE IF pc = "done" THEN result.assignments
    ELSE <<>>

Filled(a) == a.staff_id # OPEN_LABEL

\* assignment.slot
SlotOf(a) == slots[a.slot]

HolderOf(a) == TheOne(StaffMapGet(inp.staff, a.staff_id))

\* C1: in every roster returned by the generator, no person other than the
\* unfilled marker holds two assignments on the same calendar date, whatever
\* relaxations were applied and whatever the seed.
C1_NoDoubleBooking ==
    \A i, j \in DOMAIN Roster :
        (i # j /\ Filled(Roster[i]) /\ Roster[i].staff_id = Roster[j].staff_id)
            => SlotOf(Roster[i]).date # SlotOf(Roster[j]).date

\* a roster is returned in which a slot stayed open although a person who is
\* available for it (capabilities, availability, leave) exists: that person
\* already holds another slot of the same date
C1_Witness ==
    /\ pc = "done"
    /\ \E i, j \in DOMAIN Roster :
          /\ Filled(Roster[i])
          /\ ~Filled(Roster[j])
          /\ ~SlotOf(Roster[j]).is_bleach
          /\ SlotOf(Roster[i]).date = SlotOf(Roster[j]).date
          /\ _is_available(HolderOf(Roster[i]), SlotOf(Roster[j]), inp.pto_entries)

\* C2: no assignment of a returned roster gives a person a slot on a date that
\* appears in that person's leave entries, at any tier of the relaxation ladder.
C2_LeaveIsHard ==
    \A i \in DOMAIN Roster :
        \A e \in inp.pto_entries :
            e.staff_id = Roster[i].staff_id => e.date # SlotOf(Roster[i]).date

\* a slot was just filled at a relaxed tier on a date where a person who could
\* otherwise take it is on leave
C2_Witness ==
    /\ pc = "slots"
    /\ gen.last.kind \in {"ordinary", "bleach"}
    /\ gen.last.tier >= 1
    /\ LET a == gen.assignments[Len(gen.assignments)]
           slot == slots[a.slot]
       IN  \E e \in inp.pto_entries :
              /\ e.date = slot.date
              /\ StaffMapGet(inp.staff, e.staff_id) # None
              /\ _is_available(TheOne(StaffMapGet(inp.staff, e.staff_id)), slot, {})
              /\ ~WorksThatDay(gen.states[e.staff_id], slot)

\* C3: every filled bleach assignment of a returned roster is held by a person whose role is Tech,
\* who can bleach, and who can close.
C3_BleachHolder ==
    \A i \in DOMAIN Roster :
        (SlotOf(Roster[i]).is_bleach /\ Filled(Roster[i]))
            => /\ HolderOf(Roster[i]).role = "Tech"
               /\ HolderOf(Roster[i]).can_bleach
               /\ HolderOf(Roster[i]).can_close

\* a bleach slot was just filled although the rotation member under the cursor
\* is a rostered person who cannot bleach or cannot close, or is not a Tech
C3_Witness ==
    /\ pc = "slots"
    /\ gen.last.kind = "bleach"
    /\ LET a == gen.assignments[Len(gen.assignments)]
           slot == slots[a.slot]
       IN  \E n \in DOMAIN inp.cfg.bleach_rotation :
              /\ StaffMapGet(inp.staff, inp.cfg.bleach_rotation[n]) # None
              /\ LET m == TheOne(StaffMapGet(inp.staff, inp.cfg.bleach_rotation[n]))
                 IN  /\ ~(m.role = "Tech" /\ m.can_bleach /\ m.can_close)
                     /\ ~WorksThatDay(gen.states[m.id], slot)
                     /\ slot.date \notin PtoDates(inp.pto_entries, m.id)
                     /\ a.staff_id # m.id

\* C4: with a non-empty rotation of length L the cursor lies in [0, L) after
\* initialisation, after every bleach slot is processed (filled or not), and
\* in the returned result, also when the configured cursor is L or more.
C4_CursorInRange ==
    inp.cfg.bleach_rotation # <<>> =>
        /\ (pc = "slots" =>
                gen.bleach_cursor \in 0..(Len(inp.cfg.bleach_rotation) - 1))
        /\ (pc = "done" =>
                result.bleach_cursor \in 0..(Len(inp.cfg.bleach_rotation) - 1))

\* the configured cursor is at least L, and a result is returned after a bleach
\* slot was filled and another stayed open
C4_Witness ==
    /\ pc = "done"
    /\ inp.cfg.bleach_rotation # <<>>
    /\ inp.cfg.bleach_cursor >= Len(inp.cfg.bleach_rotation)
    /\ \E i \in DOMAIN result.assignments :
          SlotOf(result.assignments[i]).is_bleach /\ Filled(result.assignments[i])

\* rank of a slot inside its day: Tech open, Tech mid, Tech close, RN, Admin
DutyRank(slot) ==
    IF slot.role = "Tech"
    THEN (IF slot.duty = "open" THEN 0 ELSE IF slot.duty = "mid" THEN 1 ELSE 2)
    ELSE IF slot.role = "RN" THEN 3 ELSE 4

SlotBefore(s, t) ==
    \/ s.day_index < t.day_index
    \/ /\ s.day_index = t.day_index
       /\ \/ DutyRank(s) < DutyRank(t)
          \/ DutyRank(s) = DutyRank(t) /\ s.slot_index < t.slot_index

\* C5: the returned roster contains exactly one assignment per slot produced
\* by the requirement normalizer, in slot order (days ascending; within a day
\* Tech open, Tech mid, Tech close, RN, Admin), each naming a person of the
\* staff or the unfilled marker; the roster under construction is the
\* corresponding prefix.  (An assignment's slot is the position of the slot
\* in the normalizer's list; the list's order is checked when the loop starts.)
C5_OneAssignmentPerSlot ==
    /\ (pc = "slots" /\ gen.k = 1 =>
            \A i \in 1..(Len(slots) - 1) : SlotBefore(slots[i], slots[i + 1]))
    /\ (pc \in {"slots", "done"} =>
            /\ Len(Building) <= Len(slots)
            /\ \A i \in DOMAIN Building :
                  /\ Building[i].slot = i
                  /\ Building[i].staff_id \in StaffIds(inp.staff) \cup {OPEN_LABEL})
    /\ (pc = "slots" => Len(Building) = gen.k - 1)
    /\ (pc = "done" => Len(Building) = Len(slots))

\* a returned roster with filled and unfilled slots, ordinary and bleach
C5_Witness ==
    /\ pc = "done"
    /\ \E i, j, k \in DOMAIN result.assignments :
          /\ Filled(result.assignments[i]) /\ ~SlotOf(result.assignments[i]).is_bleach
          /\ ~Filled(result.assignments[j])
          /\ Filled(result.assignments[k]) /\ SlotOf(result.assignments[k]).is_bleach


\* ---------------------------------------------------------------------------
\* Properties of run_tournament (SpecTournament)
\* ---------------------------------------------------------------------------

Returned == TheOne(tour.returned)

\* C6: with a base seed that is not None, two calls of run_tournament with
\* identical arguments return identical results (roster, cursor, penalty,
\* statistics) and the identical winning seed.
C6_TournamentDeterministic ==
    (pc = "t_done" /\ tour.run = 2 /\ inp.base_seed # None)
        => tour.returned = tour.first

\* the second of two seeded calls returns, and the winner is not the first trial
C6_Witness ==
    /\ pc = "t_done"
    /\ tour.run = 2
    /\ inp.base_seed # None
    /\ Len(tour.ran) >= 2
    /\ Returned.seed # TheOne(inp.base_seed)

\* C7: the penalty of the result run_tournament returns is at most the penalty
\* of every trial it ran.
C7_ReturnedIsMinimal ==
    pc = "t_done" =>
        \A n \in DOMAIN tour.ran :
            Returned.result.total_penalty <= tour.ran[n].total_penalty

\* a later trial scored strictly lower than the first and was returned
C7_Witness ==
    /\ pc = "t_done"
    /\ Len(tour.ran) >= 2
    /\ tour.ran[2].total_penalty < tour.ran[1].total_penalty
    /\ Returned.result = tour.ran[2]

\* the first trial, in trial order, whose penalty is the minimum of the trials
FirstMin(ran) ==
    CHOOSE n \in DOMAIN ran :
        /\ \A m \in DOMAIN ran : ran[n].total_penalty <= ran[m].total_penalty
        /\ \A m \in 1..(n - 1) : ran[m].total_penalty > ran[n].total_penalty

\* C8: when several trials share the minimum penalty, the result and seed of
\* the earliest of them are returned; throughout the loop the current best is
\* the earliest minimum so far (a later trial replaces it only when strictly
\* lower).
C8_EarliestMinimumWins ==
    /\ (pc = "t_loop" /\ tour.ran # <<>>) =>
            /\ tour.best_result = Some(tour.ran[FirstMin(tour.ran)])
            /\ tour.best_seed = tour.ran[FirstMin(tour.ran)].seed
    /\ pc = "t_done" =>
            /\ Returned.result = tour.ran[FirstMin(tour.ran)]
            /\ Some(Returned.seed) = tour.ran[FirstMin(tour.ran)].seed

\* two trials tie at the minimum with different rosters; the earlier is returned
C8_Witness ==
    /\ pc = "t_done"
    /\ \E m \in DOMAIN tour.ran :
          /\ m > FirstMin(tour.ran)
          /\ tour.ran[m].total_penalty = tour.ran[FirstMin(tour.ran)].total_penalty
          /\ tour.ran[m].assignments # tour.ran[FirstMin(tour.ran)].assignments

\* C9: with base seed b (not None), trial i (from 0) runs with seed b + i; the
\* seed returned is the seed of the winning trial and the seed recorded in the
\* returned result; generate_schedule called with that seed and the same
\* arguments reproduces the returned assignments, penalty and cursor.
C9_SeedsAndReplay ==
    inp.base_seed # None =>
        /\ pc \in {"t_loop", "t_done"} =>
              \A n \in DOMAIN tour.ran :
                  tour.ran[n].seed = Some(TheOne(inp.base_seed) + n - 1)
        /\ pc = "t_done" =>
              /\ Returned.result.seed = Some(Returned.seed)
              /\ \E n \in DOMAIN tour.ran :
                    /\ Returned.result = tour.ran[n]
                    /\ Returned.seed = TheOne(inp.base_seed) + n - 1
        /\ pc = "t_replayed" =>
              /\ TheOne(tour.replay).kind = "ok"
              /\ TheOne(tour.replay).assignments = Returned.result.assignments
              /\ TheOne(tour.replay).total_penalty = Returned.result.total_penalty
              /\ TheOne(tour.replay).bleach_cursor = Returned.result.bleach_cursor

\* a seeded call whose winner is a later trial, with a roster unlike the first
\* trial's, has been replayed
C9_Witness ==
    /\ pc = "t_replayed"
    /\ inp.base_seed # None
    /\ Returned.seed > TheOne(inp.base_seed)
    /\ Returned.result.assignments # tour.ran[1].assignments

\* ---------------------------------------------------------------------------
\* Properties of improve_by_swaps (SpecRefine)
\* ---------------------------------------------------------------------------

\* C10: the score the refiner returns is at most the score of the roster it was
\* given, and the tracked best score never increases from one iteration to the
\* next.
C10_RefinerNeverWorse ==
    /\ [](pc \in {"ls_loop", "ls_done"} =>
            ls.best <= score(inp.assignments, inp.cfg))
    /\ [](pc = "ls_done" =>
            TheOne(ls.returned).best <= score(inp.assignments, inp.cfg))
    /\ [][(pc = "ls_loop" /\ pc' \in {"ls_loop", "ls_done"}) => ls'.best <= ls.best]_vars

\* the refiner returns after accepting a swap that lowered the score and
\* turning down a swap that would have raised it
C10_Witness ==
    /\ pc = "ls_done"
    /\ ls.accepted >= 1
    /\ TheOne(ls.returned).best < score(inp.assignments, inp.cfg)
    /\ ls.last = "worse"


\* ---------------------------------------------------------------------------
\* Failure modes and the ladder
\* ---------------------------------------------------------------------------

\* C11: if the requirements lack an entry for one of the six weekdays,
\* generate_schedule fails with ValueError before any slot is built or any
\* person is assigned, and returns no roster.
C11_MissingDayRaises ==
    ~HasEveryDay(inp.requirements) =>
        /\ pc \in {"call", "raised"}
        /\ (pc = "call" => result = NoResult)
        /\ (pc = "raised" => result = ValueError)
        /\ slots_ref = 0
        /\ gen = Idle

\* a call whose requirements have six entries, none of them for Thursday, raised
C11_Witness ==
    /\ pc = "raised"
    /\ result = ValueError
    /\ Len(inp.requirements) = Len(DAYS)
    /\ ~HasEveryDay(inp.requirements)


LastAssignment == gen.assignments[Len(gen.assignments)]

\* the people of the slot's role who pass _is_available for it and hold no
\* slot of its day
AdmissibleAndFree(slot) ==
    { i \in DOMAIN inp.staff :
        /\ inp.staff[i].role = slot.role
        /\ _is_available(inp.staff[i], slot, inp.pto_entries)
        /\ ~WorksThatDay(gen.states[inp.staff[i].id], slot) }

\* C13: a slot for which no candidate survives is recorded with the unfilled
\* marker and a "Needs coverage" note, and the loop goes on to the next slot;
\* an ordinary slot is left unfilled only if nobody of its role is both
\* admissible and free that day.
C13_UnfilledOnlyWhenNobody ==
    (pc = "slots" /\ gen.last.kind = "unfilled") =>
        /\ LastAssignment.staff_id = OPEN_LABEL
        /\ LastAssignment.notes # <<>>
        /\ LastAssignment.notes[Len(LastAssignment.notes)] = "Needs coverage"
        /\ LastAssignment.slot = gen.k - 1
        /\ (~SlotOf(LastAssignment).is_bleach =>
                AdmissibleAndFree(SlotOf(LastAssignment)) = {})

\* an ordinary slot stayed open although its role has people, one of them
\* admissible but at work that day, and slots remain to be processed
C13_Witness ==
    /\ pc = "slots"
    /\ gen.last.kind = "unfilled"
    /\ gen.k <= Len(slots)
    /\ ~SlotOf(LastAssignment).is_bleach
    /\ \E i \in DOMAIN inp.staff :
          /\ _is_available(inp.staff[i], SlotOf(LastAssignment), inp.pto_entries)
          /\ WorksThatDay(gen.states[inp.staff[i].id], SlotOf(LastAssignment))


\* C14: an ordinary slot filled at relaxation tier k >= 1 carries the note
\* naming that relaxation, and one filled under the full constraints carries
\* no note.
C14_RelaxationNoted ==
    (pc = "slots" /\ gen.last.kind = "ordinary") =>
        IF gen.last.tier >= 1
        THEN \E n \in DOMAIN LastAssignment.notes :
                LastAssignment.notes[n] = OrdinaryTiers[gen.last.tier].note
        ELSE LastAssignment.notes = <<>>


\* C15: an error raised inside one trial does not escape run_tournament: the
\* trial is skipped and the loop goes on to the remaining trials, so the call
\* never ends with the trial's exception.
C15_TrialErrorIsolated ==
    pc # "t_raised"


\* the calendar week (Monday to Sunday) of an hour; hour 120 is Monday
\* 2025-01-06 00:00
CalendarWeek(hour) == (hour - 120) \div 168

\* the hours of the blocks that start in week w
RECURSIVE HoursInWeek(_, _, _)
HoursInWeek(blocks, i, w) ==
    IF i = 0 THEN 0
    ELSE HoursInWeek(blocks, i - 1, w)
         + (IF CalendarWeek(blocks[i].start_dt) = w
            THEN blocks[i].end_dt - blocks[i].start_dt ELSE 0)

\* the four checks as the specification words them: availability on each
\* shift's weekday, the rest gap between consecutive shifts, the hours of each
\* week within the ceiling, no two shifts overlapping
FeasibleByTheFourChecks(staff_id, person_slots, cfg) ==
    LET found == {i \in DOMAIN cfg.staff : cfg.staff[i].id = staff_id}
        st == cfg.staff[CHOOSE i \in found : \A j \in found : i <= j]
        blocks == SortedByStart(person_slots)
    IN  /\ found # {}
        /\ \A i \in DOMAIN blocks : BlockOk(st, blocks, i, cfg)
        /\ \A i \in DOMAIN blocks :
              HoursInWeek(blocks, Len(blocks), CalendarWeek(blocks[i].start_dt))
                  <= cfg.constraints.max_hours_per_week
        /\ \A i \in 2..Len(blocks) :
              \/ blocks[i - 1].end_dt <= blocks[i].start_dt
              \/ blocks[i].end_dt <= blocks[i - 1].start_dt

\* C16: when an iteration draws two distinct filled slots of one role held by
\* different people, both people stay feasible over their new slot lists under
\* the four checks, and the new score is at most the best score (a tie
\* included), the swap is kept: the roster of the next iteration is the
\* swapped one, best is the new score, and accepted is one more.
C16_FeasibleSwapKept ==
    (pc = "ls_loop" /\ ls.it < inp.iterations) =>
        \A r \in DOMAIN RoleIndices(ls.current) :
            \A i, j \in RoleIndices(ls.current)[r] :
                (/\ i # j
                 /\ ~SkipsPair(ls.current, i, j)
                 /\ FeasibleByTheFourChecks(TheOne(ls.current[i].sid),
                        SlotsOf(Swapped(ls.current, i, j), ls.current[i].sid), inp.cfg)
                 /\ FeasibleByTheFourChecks(TheOne(ls.current[j].sid),
                        SlotsOf(Swapped(ls.current, i, j), ls.current[j].sid), inp.cfg)
                 /\ score(Swapped(ls.current, i, j), inp.cfg) <= ls.best)
                => LET after == SwapIteration(ls, i, j, inp.cfg)
                   IN  /\ after.current = Swapped(ls.current, i, j)
                       /\ after.best = score(Swapped(ls.current, i, j), inp.cfg)
                       /\ after.accepted = ls.accepted + 1


\* the rules ignored at tier t of the ordinary ladder: none at 0, then the
\* alternating-week cap, the consecutive-day cap, the weekly day cap and the
\* post-special-duty rest, each tier adding one
TierIgnore(t) ==
    [alt_sat |-> t >= 1, three_day |-> t >= 2, week_cap |-> t >= 3,
     post_bleach |-> t >= 4]

\* everything ignored except the rule that tier r gives up
OnlyRule(r) ==
    [alt_sat |-> r # 1, three_day |-> r # 2, week_cap |-> r # 3,
     post_bleach |-> r # 4]

\* the people of the slot's role who are free that day, admissible, and pass
\* the rules still active at tier t
Survivors(t, slot) ==
    { i \in DOMAIN inp.staff :
        /\ inp.staff[i].role = slot.role
        /\ PassesGather(inp.staff[i], gen.states, slot, inp.cfg, inp.pto_entries,
                        TierIgnore(t)) }

\* C18: the person given an ordinary slot is a survivor of the least relaxed
\* tier that has a survivor; so a person who breaks an enabled rule gets the
\* slot only when no tier in which that rule is active has a survivor.
C18_LeastRelaxedTier ==
    [][(pc = "slots" /\ pc' = "slots" /\ gen'.last.kind = "ordinary") =>
          LET slot == slots[gen.k]
              holder == gen'.assignments[gen.k].staff_id
          IN  /\ \E t \in 0..4 :
                    /\ \A u \in 0..(t - 1) : Survivors(u, slot) = {}
                    /\ \E i \in Survivors(t, slot) : inp.staff[i].id = holder
              /\ \A r \in 1..4 :
                    _violates_toggles(gen.states[holder], slot, inp.cfg, OnlyRule(r))
                        => \A u \in 0..(r - 1) : Survivors(u, slot) = {}]_vars

\* an ordinary slot of a role with several people went, at the tier that gives
\* up the consecutive-day cap or a looser one, to a person while a colleague of
\* the role was free that day but on leave
C18_Witness ==
    /\ pc = "slots"
    /\ gen.last.kind = "ordinary"
    /\ gen.last.tier >= 2
    /\ \E i \in DOMAIN inp.staff :
          /\ inp.staff[i].role = SlotOf(LastAssignment).role
          /\ inp.staff[i].id # LastAssignment.staff_id
          /\ ~WorksThatDay(gen.states[inp.staff[i].id], SlotOf(LastAssignment))
          /\ SlotOf(LastAssignment).date \in PtoDates(inp.pto_entries, inp.staff[i].id)


\* the run states with everybody's last special-duty day set to the day before d
RestingAfter(states, d) ==
    [id \in DOMAIN states |-> [states[id] EXCEPT !.last_bleach_day = Some(d - 1)]]

\* the day indices of the special-duty slots a person holds in the roster
BleachDaysOf(staff_id) ==
    { SlotOf(Roster[i]).day_index :
        i \in {n \in DOMAIN Roster :
                 Roster[n].staff_id = staff_id /\ SlotOf(Roster[n]).is_bleach} }

\* C19: with post-special-duty rest enabled nobody gets a special-duty slot on
\* the day index after their last special-duty day: the special-duty ladder
\* has four tiers (all rules; alternating-week cap ignored; consecutive-day
\* cap ignored too; weekly day cap ignored too), none ignores the rest, so the
\* walk picks nobody whose last special-duty day is the day before the slot's.
C19_RestIsHardForBleach ==
    /\ Len(BleachTiers) = 4
    /\ \A t \in DOMAIN BleachTiers :
          BleachTiers[t].ignore = [post_bleach |-> FALSE, alt_sat |-> t >= 2,
                                   three_day |-> t >= 3, week_cap |-> t >= 4]
    /\ (/\ pc = "slots"
        /\ gen.k <= Len(slots)
        /\ inp.cfg.toggles.enforce_post_bleach_rest
        /\ inp.cfg.bleach_rotation # <<>>
        /\ slots[gen.k].is_bleach)
          => BleachWalk(gen.bleach_cursor, inp.staff,
                        RestingAfter(gen.states, slots[gen.k].day_index),
                        slots[gen.k], inp.cfg, inp.pto_entries).chosen = None
    /\ inp.cfg.toggles.enforce_post_bleach_rest =>
          \A i \in DOMAIN Roster :
              Filled(Roster[i]) =>
                  \A d \in BleachDaysOf(Roster[i].staff_id) :
                      d + 1 \notin BleachDaysOf(Roster[i].staff_id)

\* with the rest enabled, a person who held a special-duty slot before has just
\* been given another one
C19_Witness ==
    /\ pc = "slots"
    /\ inp.cfg.toggles.enforce_post_bleach_rest
    /\ gen.last.kind = "bleach"
    /\ \E i \in 1..(Len(gen.assignments) - 1) :
          /\ gen.assignments[i].staff_id = LastAssignment.staff_id
          /\ SlotOf(gen.assignments[i]).is_bleach


\* the rules ignored at tier t of the special-duty ladder: none at 0, then the
\* alternating-week cap, the consecutive-day cap and the weekly day cap, each
\* tier adding one; the rest after special duty never
BleachTierIgnore(t) ==
    [alt_sat |-> t >= 1, three_day |-> t >= 2, week_cap |-> t >= 3,
     post_bleach |-> FALSE]

\* the rotation member at index idx (from 0) is on the staff list, free on the
\* slot's day, admissible, and passes the rules still active at tier t
Qualifies(idx, t, slot) ==
    \E i \in DOMAIN inp.staff :
        /\ inp.staff[i].id = inp.cfg.bleach_rotation[idx + 1]
        /\ PassesGather(inp.staff[i], gen.states, slot, inp.cfg, inp.pto_entries,
                        BleachTierIgnore(t))

\* the tiers at which some rotation member qualifies
QualifyingTiers(slot) ==
    { t \in 0..3 : \E idx \in 0..(Len(inp.cfg.bleach_rotation) - 1) :
                       Qualifies(idx, t, slot) }

\* C20: a special-duty slot with a non-empty rotation goes to the first member
\* in cyclic order from the cursor who qualifies at tier t, t being the least
\* relaxed tier at which any member qualifies (the whole rotation is tried at
\* a tier before the next tier); it stays open only if nobody qualifies at any
\* tier.
C20_RotationWalkOrder ==
    [][(/\ pc = "slots" /\ pc' = "slots"
        /\ slots[gen.k].is_bleach
        /\ inp.cfg.bleach_rotation # <<>>) =>
          LET slot == slots[gen.k]
              L == Len(inp.cfg.bleach_rotation)
              tiers == QualifyingTiers(slot)
          IN  IF tiers = {}
              THEN gen'.last.kind = "unfilled"
              ELSE LET t == CHOOSE u \in tiers : \A v \in tiers : u <= v
                       offsets == {o \in 0..(L - 1) :
                                     Qualifies((gen.bleach_cursor + o) % L, t, slot)}
                       first == CHOOSE o \in offsets : \A q \in offsets : o <= q
                       idx == (gen.bleach_cursor + first) % L
                   IN  /\ gen'.last.kind = "bleach"
                       /\ gen'.last.rotation_index_used = Some(idx)
                       /\ gen'.assignments[gen.k].staff_id
                             = inp.cfg.bleach_rotation[idx + 1]]_vars

\* the first special-duty slot of a run went to a member further along the
\* rotation, at a tier stricter than the only tiers the member under the
\* cursor qualifies at
C20_Witness ==
    /\ pc = "slots"
    /\ gen.last.kind = "bleach"
    /\ \A i \in 1..(Len(gen.assignments) - 1) : ~SlotOf(gen.assignments[i]).is_bleach
    /\ gen.last.rotation_index_used # Some(InitialCursor(inp.cfg))
    /\ inp.cfg.bleach_rotation[InitialCursor(inp.cfg) + 1] # LastAssignment.staff_id
    /\ \E t \in 1..3 :
          /\ t > gen.last.tier
          /\ Qualifies(InitialCursor(inp.cfg), t, SlotOf(LastAssignment))
          /\ ~Qualifies(InitialCursor(inp.cfg), t - 1, SlotOf(LastAssignment))


\* C21: when the rotation member at index i of a rotation of length L takes a
\* special-duty slot the cursor becomes (i + 1) mod L and that person's last
\* special-duty day becomes the slot's day index; a slot that is not
\* special-duty leaves the cursor alone; the result carries the cursor as it
\* stands after the last slot, which is the input cursor mod L when the
\* horizon has no special-duty slot.
C21_CursorFollowsHolder ==
    /\ [][(pc = "slots" /\ pc' = "slots") =>
            LET slot == slots[gen.k]
                L == Len(inp.cfg.bleach_rotation)
                holder == gen'.assignments[gen.k].staff_id
            IN  /\ gen'.last.kind = "bleach" =>
                      \E i \in 0..(L - 1) :
                          /\ inp.cfg.bleach_rotation[i + 1] = holder
                          /\ gen'.last.rotation_index_used = Some(i)
                          /\ gen'.bleach_cursor = (i + 1) % L
                          /\ gen'.states[holder].last_bleach_day = Some(slot.day_index)
                /\ ~slot.is_bleach => gen'.bleach_cursor = gen.bleach_cursor]_vars
    /\ [][(pc = "slots" /\ pc' = "done") =>
            result'.bleach_cursor = gen.bleach_cursor]_vars
    /\ []((/\ pc = "done"
           /\ inp.cfg.bleach_rotation # <<>>
           /\ \A n \in DOMAIN slots : ~slots[n].is_bleach) =>
            result.bleach_cursor
                = inp.cfg.bleach_cursor % Len(inp.cfg.bleach_rotation))

\* the only member of a rotation of length one has just taken a special-duty
\* slot and the cursor is back at 0
C21_Witness ==
    /\ pc = "slots"
    /\ gen.last.kind = "bleach"
    /\ Len(inp.cfg.bleach_rotation) = 1
    /\ gen.last.rotation_index_used = Some(0)
    /\ gen.bleach_cursor = 0
    /\ gen.states[LastAssignment.staff_id].last_bleach_day
          = Some(SlotOf(LastAssignment).day_index)

\* C22: when no member of a non-empty rotation qualifies for a special-duty
\* slot at any tier, the slot is recorded unfilled with the notes "Bleach
\* rotation unavailable" and "Needs coverage", the cursor moves on by exactly
\* one modulo the rotation length, nobody's run state changes, and the loop
\* goes on to the next slot.
C22_RotationExhausted ==
    [][(/\ pc = "slots" /\ pc' = "slots"
        /\ slots[gen.k].is_bleach
        /\ inp.cfg.bleach_rotation # <<>>
        /\ QualifyingTiers(slots[gen.k]) = {}) =>
          LET a == gen'.assignments[gen.k]
          IN  /\ Len(gen'.assignments) = gen.k
              /\ a.slot = gen.k
              /\ a.staff_id = OPEN_LABEL
              /\ a.notes[1] = "Bleach rotation unavailable"
              /\ a.notes[Len(a.notes)] = "Needs coverage"
              /\ gen'.bleach_cursor
                    = (gen.bleach_cursor + 1) % Len(inp.cfg.bleach_rotation)
              /\ gen'.states = gen.states
              /\ gen'.k = gen.k + 1]_vars

\* a special-duty slot has just been left open although a member of the
\* rotation, which has several, is on the staff list, and slots remain
C22_Witness ==
    /\ pc = "slots"
    /\ gen.last.kind = "unfilled"
    /\ SlotOf(LastAssignment).is_bleach
    /\ Len(inp.cfg.bleach_rotation) >= 2
    /\ \E n \in DOMAIN inp.cfg.bleach_rotation :
          StaffMapGet(inp.staff, inp.cfg.bleach_rotation[n]) # None
    /\ LastAssignment.notes[1] = "Bleach rotation unavailable"
    /\ gen.k <= Len(slots)

\* the distinct days a person has worked in the week of day index d
DaysWorkedInWeekOf(staff_id, d) ==
    { w \in SeqSet(gen.states[staff_id].worked_day_indices) :
        w \div Len(DAYS) = d \div Len(DAYS) }

\* the weekly day cap is switched on for the role
CapEnabledFor(role) ==
    \/ role = "Tech" /\ inp.cfg.toggles.limit_tech_four_days
    \/ role = "RN" /\ inp.cfg.toggles.limit_rn_four_days

\* the people of the slot's role, under an enabled cap, for whom the slot's
\* day would be a new day after four or more days worked in its week
AtWeekCap(slot) ==
    { i \in DOMAIN inp.staff :
        /\ inp.staff[i].role = slot.role
        /\ CapEnabledFor(slot.role)
        /\ slot.day_index \notin DaysWorkedInWeekOf(inp.staff[i].id, slot.day_index)
        /\ Cardinality(DaysWorkedInWeekOf(inp.staff[i].id, slot.day_index)) >= 4 }

\* C23: with the weekly day cap enabled for the role, a Technician (or nurse)
\* with four distinct worked days in the slot's week is no candidate for an
\* ordinary slot on a fifth day at tiers 0, 1 and 2, and gets the slot only
\* when no admissible, free person of the role survives tiers 0 to 2.
C23_WeekCapUntilTierThree ==
    /\ []((pc = "slots" /\ gen.k <= Len(slots) /\ ~slots[gen.k].is_bleach) =>
            \A u \in 0..2 : AtWeekCap(slots[gen.k]) \cap Survivors(u, slots[gen.k]) = {})
    /\ [][(/\ pc = "slots" /\ pc' = "slots"
           /\ gen'.last.kind = "ordinary"
           /\ \E i \in AtWeekCap(slots[gen.k]) :
                 inp.staff[i].id = gen'.assignments[gen.k].staff_id) =>
             \A u \in 0..2 : Survivors(u, slots[gen.k]) = {}]_vars

\* under the cap a person has just been given an ordinary slot that is their
\* fifth day of the week
C23_Witness ==
    /\ pc = "slots"
    /\ gen.last.kind = "ordinary"
    /\ CapEnabledFor(SlotOf(LastAssignment).role)
    /\ Cardinality(DaysWorkedInWeekOf(LastAssignment.staff_id,
                                      SlotOf(LastAssignment).day_index)) = 5

\* the four rules as the claim words them, for the person staff_id and the
\* slot, read from the person's worked days and markers
RuleTriggered(rule, staff_id, slot) ==
    LET st == gen.states[staff_id]
        d == slot.day_index
    IN  CASE rule = "three_day" ->
                {d - 1, d - 2} \subseteq SeqSet(st.worked_day_indices)
          [] rule = "post_bleach" -> st.last_bleach_day = Some(d - 1)
          [] rule = "alt_sat" ->
                /\ slot.day_name = "Sat"
                /\ st.last_saturday_week = Some((d \div Len(DAYS)) - 1)
          [] rule = "week_cap" ->
                Cardinality(DaysWorkedInWeekOf(staff_id, d)) >= 4

RuleEnabled(rule, slot) ==
    CASE rule = "three_day" -> inp.cfg.toggles.enforce_three_day_cap
      [] rule = "post_bleach" -> inp.cfg.toggles.enforce_post_bleach_rest
      [] rule = "alt_sat" -> inp.cfg.toggles.enforce_alt_saturdays
      [] rule = "week_cap" -> CapEnabledFor(slot.role)

\* the people _violates_toggles can be asked about for a slot: those of the
\* slot's role who have not worked the slot's day
AskedAbout(slot) ==
    { i \in DOMAIN inp.staff :
        /\ inp.staff[i].role = slot.role
        /\ ~WorksThatDay(gen.states[inp.staff[i].id], slot) }

\* the records a caller can pass for the four ignore flags
IgnoreRecords == [{"three_day", "post_bleach", "alt_sat", "week_cap"} -> BOOLEAN]

\* C24: whenever a slot is processed, for every person _violates_toggles is
\* asked about and whatever the caller ignores, it blocks exactly when some
\* rule is enabled, not ignored and triggered; a disabled rule blocks nobody,
\* so with every toggle off each ordinary slot is decided at the
\* full-constraint tier.
C24_BlocksExactlyOnRules ==
    [][(pc = "slots" /\ pc' = "slots") =>
          /\ \A i \in AskedAbout(slots[gen.k]) :
                LET active == { rule \in {"three_day", "post_bleach", "alt_sat", "week_cap"} :
                                  /\ RuleEnabled(rule, slots[gen.k])
                                  /\ RuleTriggered(rule, inp.staff[i].id, slots[gen.k]) }
                IN  \A ignore \in IgnoreRecords :
                        _violates_toggles(gen.states[inp.staff[i].id], slots[gen.k],
                                          inp.cfg, ignore)
                        <=> \E rule \in active : ~ignore[rule]
          /\ (/\ inp.cfg.toggles = Toggles(FALSE, FALSE, FALSE, FALSE, FALSE)
              /\ gen'.last.kind = "ordinary") => gen'.last.tier = 0]_vars

\* a slot is about to be processed for which a person who has not worked that
\* day is blocked, and the alternating-week cap is the only rule triggered
C24_Witness ==
    /\ pc = "slots"
    /\ gen.k <= Len(slots)
    /\ \E i \in AskedAbout(slots[gen.k]) :
          /\ _violates_toggles(gen.states[inp.staff[i].id], slots[gen.k], inp.cfg,
                               NoIgnore)
          /\ RuleTriggered("alt_sat", inp.staff[i].id, slots[gen.k])
          /\ ~RuleTriggered("three_day", inp.staff[i].id, slots[gen.k])
          /\ ~RuleTriggered("week_cap", inp.staff[i].id, slots[gen.k])
          /\ ~RuleTriggered("post_bleach", inp.staff[i].id, slots[gen.k])

\* the six reasons the claim lists for a person not being available for a slot
Unavailable(member, slot) ==
    \/ member.role # slot.role
    \/ slot.day_name \notin DOMAIN member.availability
    \/ (slot.day_name \in DOMAIN member.availability
            /\ ~member.availability[slot.day_name])
    \/ \E e \in inp.pto_entries : e.staff_id = member.id /\ e.date = slot.date
    \/ slot.role = "Tech" /\ slot.duty = "open" /\ ~member.can_open
    \/ slot.role = "Tech" /\ slot.duty = "close" /\ ~member.can_close
    \/ slot.is_bleach /\ ~member.can_bleach

\* C25: for the slot being processed and every person on the staff,
\* _is_available is false exactly when one of the six reasons holds (role,
\* weekday, leave, open, close, special-duty capability) and true otherwise.
C25_AvailableExactly ==
    (pc = "slots" /\ gen.k <= Len(slots)) =>
        \A i \in DOMAIN inp.staff :
            _is_available(inp.staff[i], slots[gen.k], inp.pto_entries)
            <=> ~Unavailable(inp.staff[i], slots[gen.k])

\* the slot being processed falls on a weekday missing from the availability
\* map of a person of the slot's role, who is on leave on no day and able to do
\* the duty, and _is_available says no
C25_Witness ==
    /\ pc = "slots"
    /\ gen.k <= Len(slots)
    /\ \E i \in DOMAIN inp.staff :
          /\ inp.staff[i].role = slots[gen.k].role
          /\ slots[gen.k].day_name \notin DOMAIN inp.staff[i].availability
          /\ slots[gen.k].duty = "open"
          /\ inp.staff[i].can_open
          /\ PtoDates(inp.pto_entries, inp.staff[i].id) = {}
          /\ ~_is_available(inp.staff[i], slots[gen.k], inp.pto_entries)

\* the (score + jitter, score, id) entries the slot about to be processed gets:
\* the shuffle and the jitters drawn from the generator as it stands
ScoredNow ==
    LET slot == slots[gen.k]
        sh == Shuffle(StaffByRole(inp.staff, slot.role), gen.rng)
        lad == Ladder(sh.x, gen.states, slot, inp.cfg, inp.pto_entries)
    IN  ScoreFrom(lad.candidates, 1, gen.states, slot, inp.cfg, sh.rng, <<>>).scored

\* the preference weight of a person for a slot, and the assignments held
PreferenceWeight(id, slot) ==
    LET member == TheOne(StaffMapGet(inp.staff, id))
    IN  IF slot.role = "Tech"
        THEN weight_for(member.preferences, slot.duty, slot.day_name)
        ELSE 4000
HeldSoFar(id) == Len(gen.states[id].assignments)

\* C29: when an ordinary slot is filled, every survivor of the deciding tier is
\* scored preference weight + 0.5 x assignments held, with a jitter of at
\* least 0 and less than 0.001; the holder has the least score + jitter, the
\* smaller id winning an exact tie; so the holder's score is less than 0.001
\* above the least score, and no survivor of equal preference weight holds
\* fewer assignments.
C29_LowestScoreWins ==
    [][(pc = "slots" /\ pc' = "slots" /\ gen'.last.kind = "ordinary") =>
          LET slot == slots[gen.k]
              holder == gen'.assignments[gen.k].staff_id
              entries == {ScoredNow[n] : n \in DOMAIN ScoredNow}
          IN  /\ {e.id : e \in entries}
                    = {inp.staff[i].id : i \in Survivors(gen'.last.tier, slot)}
              /\ \A e \in entries :
                    /\ e.score = PreferenceWeight(e.id, slot)
                                    + FAIRNESS_WEIGHT * HeldSoFar(e.id)
                    /\ e.key - e.score \in 0..(JITTER_SCALE - 1)
              /\ \E h \in entries :
                    /\ h.id = holder
                    /\ \A e \in entries :
                          \/ h.key < e.key
                          \/ h.key = e.key /\ IdRank(h.id) <= IdRank(e.id)
                    /\ \A e \in entries :
                          /\ h.score < e.score + JITTER_SCALE
                          /\ PreferenceWeight(e.id, slot) = PreferenceWeight(h.id, slot)
                                => HeldSoFar(h.id) <= HeldSoFar(e.id)]_vars

\* an ordinary slot went to a person although a colleague who survived the
\* same tier had a lower score before the jitter
C29_Witness ==
    /\ pc = "slots"
    /\ gen.last.kind = "ordinary"
    /\ \E i \in DOMAIN inp.staff :
          LET slot == SlotOf(LastAssignment)
              holder == LastAssignment.staff_id
          IN  /\ inp.staff[i].role = slot.role
              /\ inp.staff[i].id # holder
              /\ PassesGather(inp.staff[i], gen.states, slot, inp.cfg, inp.pto_entries,
                              TierIgnore(gen.last.tier))
              /\ PreferenceWeight(inp.staff[i].id, slot)
                    + FAIRNESS_WEIGHT * HeldSoFar(inp.staff[i].id)
                 < PreferenceWeight(holder, slot)
                    + FAIRNESS_WEIGHT * (HeldSoFar(holder) - 1)

\* C30: a filled slot adds to the running total the holder's preference weight
\* plus 0.5 x the number of assignments the holder held before this slot (the
\* score the holder was chosen on, without the jitter); an unfilled slot adds
\* nothing.
C30_PenaltyAdded ==
    [][(pc = "slots" /\ pc' = "slots") =>
          LET slot == slots[gen.k]
              holder == gen'.assignments[gen.k].staff_id
          IN  gen'.total_penalty - gen.total_penalty =
                  IF gen'.last.kind = "unfilled"
                  THEN 0
                  ELSE PreferenceWeight(holder, slot)
                          + FAIRNESS_WEIGHT * HeldSoFar(holder)]_vars

AtDayStart ==
    /\ pc = "slots"
    /\ gen.k <= Len(slots)
    /\ (gen.k = 1 \/ slots[gen.k - 1].day_index # slots[gen.k].day_index)

\* C34: at the start of a day that has a special-duty slot, if some rotation
\* member qualifies for that slot at some tier of the walk, then once the
\* day's slots up to it are processed the special-duty slot is held by a
\* rotation member.
C34_RotationMemberKeptFree ==
    AtDayStart =>
        \A kb \in DOMAIN slots :
            (/\ slots[kb].day_index = slots[gen.k].day_index
             /\ slots[kb].is_bleach
             /\ inp.cfg.bleach_rotation # <<>>
             /\ QualifyingTiers(slots[kb]) # {})
            => LET after == RunSlots(gen, SubSeq(slots, 1, kb), inp.staff, inp.cfg,
                                     inp.pto_entries)
               IN  \E n \in DOMAIN inp.cfg.bleach_rotation :
                       inp.cfg.bleach_rotation[n] = after.assignments[kb].staff_id

\* ---------------------------------------------------------------------------
\* Properties of _build_slots (SpecSlots)
\* ---------------------------------------------------------------------------

\* the slot list _build_slots returned
Built == IF pc = "b_built" THEN result.slots ELSE <<>>

\* C17: every slot marked special-duty has role Tech, duty close and ordinal
\* 1, so a day has at most one; a day whose close-Tech count is zero has none;
\* no open, mid, RN or Admin slot is marked.
C17_BleachSlotShape ==
    /\ \A i \in DOMAIN Built :
          Built[i].is_bleach =>
              /\ Built[i].role = "Tech"
              /\ Built[i].duty = "close"
              /\ Built[i].slot_index = 1
              /\ ReqMap(inp.requirements)[Built[i].day_name].tech_closers > 0
    /\ \A i, j \in DOMAIN Built :
          (Built[i].is_bleach /\ Built[j].is_bleach
              /\ Built[i].day_index = Built[j].day_index) => i = j

\* a list with a special-duty slot on a day that has a second close slot,
\* which is not marked
C17_Witness ==
    /\ pc = "b_built"
    /\ \E i, j \in DOMAIN Built :
          /\ Built[i].is_bleach
          /\ Built[j].day_index = Built[i].day_index
          /\ Built[j].duty = "close"
          /\ Built[j].slot_index = 2
          /\ ~Built[j].is_bleach


\* the horizon's day indices, and the requirement given for a day
HorizonDays == 0..(inp.cfg.weeks * Len(DAYS) - 1)
Given(d) == ReqMap(inp.requirements)[DAYS[(d % Len(DAYS)) + 1]]

\* how many slots of a role and duty were built for day d
SlotCount(d, role, duty) ==
    Cardinality({ k \in DOMAIN Built :
                    /\ Built[k].day_index = d
                    /\ Built[k].role = role
                    /\ Built[k].duty = duty })

TechCount(d) ==
    SlotCount(d, "Tech", "open") + SlotCount(d, "Tech", "mid")
        + SlotCount(d, "Tech", "close")

\* the least n with n * per >= amount, i.e. ceil(amount / per), for per > 0
Ceiling(amount, per) ==
    CHOOSE n \in 0..amount : n * per >= amount /\ (n = 0 \/ (n - 1) * per < amount)

\* C26: on every horizon day the Tech slots built number at least
\* ceil(patients / patients-per-technician); open and close counts are as
\* given; a shortfall is added to mid in full, and when the given counts
\* suffice (or no ratio is set) the mid count is as given too.
C26_TechAutoScale ==
    pc = "b_built" =>
        \A d \in HorizonDays :
            LET given_total == Given(d).tech_openers + Given(d).tech_mids
                                  + Given(d).tech_closers
                need == IF inp.cfg.patients_per_tech > 0
                        THEN Ceiling(Given(d).patient_count, inp.cfg.patients_per_tech)
                        ELSE 0
            IN  /\ TechCount(d) >= need
                /\ SlotCount(d, "Tech", "open") = Given(d).tech_openers
                /\ SlotCount(d, "Tech", "close") = Given(d).tech_closers
                /\ SlotCount(d, "Tech", "mid") =
                      IF given_total < need
                      THEN Given(d).tech_mids + (need - given_total)
                      ELSE Given(d).tech_mids

\* slots were built for a horizon with a day whose given Tech counts fall
\* short of the ratio and a day whose counts suffice
C26_Witness ==
    /\ pc = "b_built"
    /\ inp.cfg.patients_per_tech > 0
    /\ \E d \in HorizonDays : TechCount(d) > Given(d).tech_openers + Given(d).tech_mids
                                                + Given(d).tech_closers
    /\ \E d \in HorizonDays :
          /\ Given(d).patient_count > 0
          /\ SlotCount(d, "Tech", "mid") = Given(d).tech_mids


\* C27: on every horizon day the RN slots built number max(given nurse count,
\* ceil(patients / patients-per-nurse), ceil(Tech slots built that day /
\* technicians-per-nurse)), a ratio of zero contributing nothing; and two
\* horizon days on the same weekday get the same count for every role and duty.
C27_NurseAutoScale ==
    pc = "b_built" =>
        /\ \A d \in HorizonDays :
              LET from_patients == IF inp.cfg.patients_per_rn > 0
                                   THEN Ceiling(Given(d).patient_count,
                                                inp.cfg.patients_per_rn)
                                   ELSE 0
                  from_techs == IF inp.cfg.techs_per_rn > 0
                                THEN Ceiling(TechCount(d), inp.cfg.techs_per_rn)
                                ELSE 0
              IN  /\ SlotCount(d, "RN", "coverage") >= Given(d).rn_count
                  /\ SlotCount(d, "RN", "coverage") >= from_patients
                  /\ SlotCount(d, "RN", "coverage") >= from_techs
                  /\ SlotCount(d, "RN", "coverage")
                        \in {Given(d).rn_count, from_patients, from_techs}
        /\ \A d, e \in HorizonDays :
              d % Len(DAYS) = e % Len(DAYS) =>
                  \A role \in {"Tech", "RN", "Admin"} :
                      \A duty \in {"open", "mid", "close", "coverage"} :
                          SlotCount(d, role, duty) = SlotCount(e, role, duty)

\* slots were built for two weeks, and on some day the nurse count comes from
\* the Tech slots the patient ratio added: it exceeds the given count, the
\* patient minimum, and the minimum the given Tech counts would ask for
C27_Witness ==
    /\ pc = "b_built"
    /\ inp.cfg.weeks = 2
    /\ inp.cfg.techs_per_rn > 0
    /\ inp.cfg.patients_per_rn > 0
    /\ \E d \in HorizonDays :
          /\ SlotCount(d, "RN", "coverage") > Given(d).rn_count
          /\ SlotCount(d, "RN", "coverage")
                > Ceiling(Given(d).patient_count, inp.cfg.patients_per_rn)
          /\ SlotCount(d, "RN", "coverage")
                > Ceiling(Given(d).tech_openers + Given(d).tech_mids
                            + Given(d).tech_closers, inp.cfg.techs_per_rn)


\* the date of horizon day d, and the days (since 2025-01-01) of February,
\* May, August and November 2025
DateOfDay(d) == inp.cfg.start_date + (d \div Len(DAYS)) * 7 + (d % Len(DAYS))
QuarterMonthDays == (31..58) \cup (120..150) \cup (212..242) \cup (304..333)

HasBleachSlot(d) ==
    \E k \in DOMAIN Built : Built[k].day_index = d /\ Built[k].is_bleach

OnBleachDay(d) ==
    /\ DAYS[(d % Len(DAYS)) + 1] = inp.cfg.bleach_day
    /\ SlotCount(d, "Tech", "close") >= 1

\* C28: in weekly mode a horizon day has a special-duty slot exactly when it
\* is on the special-duty weekday and has a close-Tech slot; in quarterly mode
\* exactly when, besides, it is in horizon week 1 and its date is in Feb, May,
\* Aug or Nov, so a one-week quarterly horizon has none; an unrecognized or
\* empty mode behaves as weekly.
C28_FrequencyModes ==
    pc = "b_built" =>
        /\ \A d \in HorizonDays :
              HasBleachSlot(d) <=>
                  IF inp.cfg.bleach_frequency \in {"quarterly", "Quarterly"}
                  THEN /\ OnBleachDay(d)
                       /\ d \div Len(DAYS) = 1
                       /\ DateOfDay(d) \in QuarterMonthDays
                  ELSE OnBleachDay(d)
        /\ (inp.cfg.bleach_frequency \in {"quarterly", "Quarterly"} /\ inp.cfg.weeks = 1) =>
              \A k \in DOMAIN Built : ~Built[k].is_bleach

\* a quarterly two-week horizon starting in January whose second Saturday is
\* in February carries a special-duty slot on that day
C28_Witness ==
    /\ pc = "b_built"
    /\ inp.cfg.bleach_frequency = "Quarterly"
    /\ inp.cfg.start_date < 31
    /\ \E d \in HorizonDays :
          /\ HasBleachSlot(d)
          /\ d \div Len(DAYS) = 1
          /\ DateOfDay(d) >= 31


\* ---------------------------------------------------------------------------
\* Trials of one tournament (SpecTournament)
\* ---------------------------------------------------------------------------

\* what a call of generate_schedule alone, with nothing run before it, returns
\* for the seed: roster, cursor, penalty and statistics
AloneResults(seed) ==
    { generate_schedule(inp.staff, inp.requirements, inp.cfg, inp.pto_entries,
                        Some(seed), rng) : rng \in RngStates(Some(seed)) }

SameOutcome(a, b) ==
    /\ a.kind = b.kind
    /\ a.assignments = b.assignments
    /\ a.bleach_cursor = b.bleach_cursor
    /\ a.total_penalty = b.total_penalty
    /\ a.stats = b.stats

NothingKept(before, after) ==
    /\ after.current = before.current
    /\ after.best = before.best
    /\ after.accepted = before.accepted
    /\ after.it = before.it + 1

\* C32: an iteration whose swap leaves either person infeasible, or scores
\* above the best, ends with the roster exactly as before the swap, best and
\* accepted unchanged, and the loop goes on; so does an iteration that draws a
\* role with fewer than two slots, an unfilled slot, or two slots of one person.
C32_RejectedSwapRestored ==
    /\ []((pc = "ls_loop" /\ ls.it < inp.iterations) =>
            \A r \in DOMAIN RoleIndices(ls.current) :
                \A i, j \in RoleIndices(ls.current)[r] :
                    LET swapped == Swapped(ls.current, i, j)
                        rejected ==
                            \/ ls.current[i].sid = None
                            \/ ls.current[j].sid = None
                            \/ ls.current[i].sid = ls.current[j].sid
                            \/ ~_feasible_for_staff(TheOne(ls.current[i].sid),
                                    SlotsOf(swapped, ls.current[i].sid), inp.cfg)
                            \/ ~_feasible_for_staff(TheOne(ls.current[j].sid),
                                    SlotsOf(swapped, ls.current[j].sid), inp.cfg)
                            \/ score(swapped, inp.cfg) > ls.best
                    IN  (i # j /\ rejected) =>
                            NothingKept(ls, SwapIteration(ls, i, j, inp.cfg)))
    /\ [][(/\ pc = "ls_loop"
           /\ pc' = "ls_loop"
           /\ ls'.last \in {"skipped", "infeasible", "worse"})
             => NothingKept(ls, ls')]_vars

\* after a swap was kept, so that the roster is no longer the input, a swap
\* that left a person infeasible was put back
C32_Witness ==
    /\ pc = "ls_loop"
    /\ ls.last = "infeasible"
    /\ ls.accepted >= 1
    /\ ls.current # inp.assignments


---------------------------------------------------------------------------
(* Weekday names of the built slots (SpecSlots) *)

\* C35: every built slot's weekday name is the calendar weekday of its date,
\* and slots with distinct day indices have distinct dates.
C35_WeekdayNameIsCalendar ==
    pc = "b_built" =>
        /\ \A k \in DOMAIN Built :
               Built[k].day_name = DOW[WeekdayOf(Built[k].date) + 1]
        /\ \A k, m \in DOMAIN Built :
               Built[k].day_index # Built[m].day_index => Built[k].date # Built[m].date


\* C36: after every iteration and on return the tracked best score is the
\* score of the roster held; the triple returned is the roster, its score and
\* the accepted count; the accepted count goes up by one exactly on a kept
\* swap and never exceeds the iterations run, which never exceed the budget.
C36_BestIsScoreOfCurrent ==
    /\ [](pc \in {"ls_loop", "ls_done"} =>
            /\ ls.best = score(ls.current, inp.cfg)
            /\ ls.accepted <= ls.it
            /\ ls.it <= inp.iterations)
    /\ [](pc = "ls_done" =>
            /\ ls.it = inp.iterations
            /\ TheOne(ls.returned).best = score(TheOne(ls.returned).current, inp.cfg)
            /\ TheOne(ls.returned).current = ls.current
            /\ TheOne(ls.returned).accepted = ls.accepted)
    /\ [][(pc = "ls_loop" /\ pc' = "ls_loop") =>
             /\ ls'.it = ls.it + 1
             /\ ls'.accepted = ls.accepted + (IF ls'.last = "accepted" THEN 1 ELSE 0)
             /\ (ls'.current # ls.current => ls'.last = "accepted")]_vars

\* a call that returned after keeping two swaps and passing over a third
\* draw, with a score strictly below the input roster's
C36_Witness ==
    /\ pc = "ls_done"
    /\ inp.iterations = 3
    /\ TheOne(ls.returned).accepted = 2
    /\ TheOne(ls.returned).best < score(inp.assignments, inp.cfg)
    /\ TheOne(ls.returned).current # inp.assignments


\* the number of positions of one role that a roster gives to one person
HeldInRole(roster, role, sid) ==
    Cardinality({i \in DOMAIN roster : roster[i].slot.role = role /\ roster[i].sid = sid})

\* C37: the roster held has, position by position, the slots of the input
\* roster and the same unfilled positions; every person holds as many slots of
\* every role as in the input, hence as many slots in all; an iteration that
\* changes the roster exchanges the people of two positions of one role; the
\* input roster is never changed.
C37_SwapsKeepShape ==
    /\ [](pc \in {"ls_loop", "ls_done"} =>
            /\ Len(ls.current) = Len(inp.assignments)
            /\ \A i \in DOMAIN ls.current :
                  /\ ls.current[i].slot = inp.assignments[i].slot
                  /\ (ls.current[i].sid = None) = (inp.assignments[i].sid = None)
            /\ \A i \in DOMAIN inp.assignments :
                  \A role \in {inp.assignments[m].slot.role : m \in DOMAIN inp.assignments} :
                     HeldInRole(ls.current, role, inp.assignments[i].sid)
                        = HeldInRole(inp.assignments, role, inp.assignments[i].sid))
    /\ [][(pc = "ls_loop" /\ pc' = "ls_loop" /\ ls'.current # ls.current) =>
             \E i, j \in DOMAIN ls.current :
                 /\ i # j
                 /\ ls.current[i].slot.role = ls.current[j].slot.role
                 /\ ls'.current = Swapped(ls.current, i, j)]_vars
    /\ [][inp' = inp]_vars

\* a roster with an unfilled position after two kept swaps, the last one just
\* made, no longer the input roster
C37_Witness ==
    /\ pc = "ls_loop"
    /\ ls.last = "accepted"
    /\ ls.accepted = 2
    /\ ls.current # inp.assignments
    /\ \E i \in DOMAIN inp.assignments : inp.assignments[i].sid = None


\* generate_v2._duty_capable on the people of the rosters: the person's
\* can_open / can_close preference for the slot's duty; t2 may not open
DutyCapable(id, slot) == ~(id = "t2" /\ slot.shift = "open")

\* the leave the rosters were generated under: t3 on Monday 2025-02-03
SwapLeave == { [staff_id |-> "t3", date |-> 33] }

\* the generator's hard rules on a roster: nobody holds a slot on a date of
\* leave or a slot whose duty they lack, or two slots on one date
HardRulesKept(roster) ==
    /\ \A i \in DOMAIN roster :
          roster[i].sid # None =>
             /\ [staff_id |-> TheOne(roster[i].sid),
                 date |-> roster[i].slot.start_dt \div 24] \notin SwapLeave
             /\ DutyCapable(TheOne(roster[i].sid), roster[i].slot)
    /\ \A i, j \in DOMAIN roster :
          (i # j /\ roster[i].sid # None /\ roster[i].sid = roster[j].sid)
             => roster[i].slot.start_dt \div 24 # roster[j].slot.start_dt \div 24

\* C38: a kept swap made on a roster that satisfies the generator's hard
\* rules (no leave, duty capability, one slot a date) leaves a roster that
\* satisfies them.
C38_KeptSwapAdmissible ==
    [][(pc = "ls_loop" /\ pc' = "ls_loop" /\ ls'.last = "accepted"
           /\ ls'.current # ls.current /\ HardRulesKept(ls.current))
          => HardRulesKept(ls'.current)]_vars

====
